---- MODULE Spec2Model ----
(***************************************************************************)
(* Model of keras_cv_attention_models: the shared layer helpers            *)
(* (common_layers.py), the VOLO outlook attention operators and model      *)
(* assembler (volo/volo.py) and the CoAtNet blocks and assembler           *)
(* (coatnet/coatnet.py).                                                   *)
(*                                                                         *)
(* The code is a library of pure graph-building functions.  A behaviour of *)
(* the model is one call: Init draws the function and its arguments from   *)
(* bounded sets, and the function's action computes what the code returns. *)
(* Tensors whose contents matter are modelled element by element (shape    *)
(* plus row-major data); Keras graph tensors are modelled by their static  *)
(* shape and the list of layers built so far.                              *)
(***************************************************************************)
EXTENDS Integers, Sequences, FiniteSets, Bags, TLC

VARIABLES call, ret, pc

vars == <<call, ret, pc>>

(***************************************************************************)
(* Bounds of the model                                                     *)
(***************************************************************************)
MaxSide == 6
MaxBatch == 2
MaxChan == 2
MaxKernel == 4
MaxStride == 3
MaxVv == 12
VvDen == 4
MaxDivisor == 4
MaxMinValue == 5
MaxRank == 4
MaxStages == 2
MaxBlocks == 2
MaxGrid == 3

(***************************************************************************)
(* Python helpers                                                          *)
(***************************************************************************)
\* Python's None, and an optional integer <<v>>.
None == <<>>

Some(v) == <<v>>

Max2(a, b) == IF a >= b THEN a ELSE b

Min2(a, b) == IF a <= b THEN a ELSE b

\* int(tf.math.ceil(a / b)) for a >= 0, b > 0
CeilDiv(a, b) == (a + b - 1) \div b

Front(s) == SubSeq(s, 1, Len(s) - 1)

RECURSIVE Sum(_)
Sum(s) == IF s = <<>> THEN 0 ELSE Sum(Front(s)) + s[Len(s)]

RECURSIVE Prod(_)
Prod(s) == IF s = <<>> THEN 1 ELSE Prod(Front(s)) * s[Len(s)]

(***************************************************************************)
(* Concrete tensors: shape, row-major data, and an error mark for an       *)
(* operation TensorFlow rejects.  Elements are bags of symbols, so that a  *)
(* sum of elements records every term with its multiplicity; zero is the   *)
(* empty bag.                                                              *)
(***************************************************************************)
Zero == EmptyBag

TErr == [shape |-> <<>>, data |-> <<>>, err |-> TRUE]

\* multi-index (0-based) of flat position k (0-based) in a row-major tensor
RECURSIVE Unflat(_, _)
Unflat(k, s) ==
    IF s = <<>> THEN <<>>
    ELSE Append(Unflat(k \div s[Len(s)], Front(s)), k % s[Len(s)])

RECURSIVE Flat(_, _)
Flat(idx, s) ==
    IF s = <<>> THEN 0
    ELSE Flat(Front(idx), Front(s)) * s[Len(s)] + idx[Len(s)]

At(t, idx) == t.data[Flat(idx, t.shape) + 1]

Build(shape, F(_)) ==
    [shape |-> shape,
     data |-> [k \in 1..Prod(shape) |-> F(Unflat(k - 1, shape))],
     err |-> FALSE]

\* tf.pad(t, paddings): paddings[d] = <<before, after>>, constant zero
tf_pad(t, paddings) ==
    IF t.err THEN TErr
    ELSE LET n == Len(t.shape)
             shape == [d \in 1..n |-> paddings[d][1] + t.shape[d] + paddings[d][2]]
             src(idx) == [d \in 1..n |-> idx[d] - paddings[d][1]]
             inside(idx) == \A d \in 1..n : src(idx)[d] \in 0..(t.shape[d] - 1)
         IN  Build(shape, LAMBDA idx : IF inside(idx) THEN At(t, src(idx)) ELSE Zero)

\* tf.transpose(t, perm): perm is 0-based as in the source
tf_transpose(t, perm) ==
    IF t.err THEN TErr
    ELSE LET n == Len(t.shape)
             shape == [d \in 1..n |-> t.shape[perm[d] + 1]]
             src(idx) == [e \in 1..n |-> idx[CHOOSE d \in 1..n : perm[d] + 1 = e]]
         IN  Build(shape, LAMBDA idx : At(t, src(idx)))

\* Python slice start:stop:step (step > 0) on a dimension of size n;
\* start and stop are optional integers, negative values count from the end.
SliceStart(sl, n) ==
    IF sl[1] = None THEN 0
    ELSE LET v == sl[1][1] IN Min2(n, Max2(0, IF v < 0 THEN v + n ELSE v))

SliceStop(sl, n) ==
    IF sl[2] = None THEN n
    ELSE LET v == sl[2][1] IN Min2(n, Max2(0, IF v < 0 THEN v + n ELSE v))

SliceLen(sl, n) ==
    LET a == SliceStart(sl, n)
        b == SliceStop(sl, n)
    IN  IF b <= a THEN 0 ELSE CeilDiv(b - a, sl[3])

\* the slice ":" of a whole dimension
All == <<None, None, 1>>

Sl(start, stop) == <<start, stop, 1>>

\* t[slices[1], slices[2], ...]
Slice(t, slices) ==
    IF t.err THEN TErr
    ELSE LET n == Len(t.shape)
             shape == [d \in 1..n |-> SliceLen(slices[d], t.shape[d])]
             src(idx) == [d \in 1..n |->
                            SliceStart(slices[d], t.shape[d]) + idx[d] * slices[d][3]]
         IN  Build(shape, LAMBDA idx : At(t, src(idx)))

\* the shape tf.reshape infers: at most one dimension is -1
ReshapeShape(old, new) ==
    LET total == Prod(old)
        known == Prod([d \in 1..Len(new) |-> IF new[d] = -1 THEN 1 ELSE new[d]])
    IN  [d \in 1..Len(new) |-> IF new[d] = -1 THEN total \div known ELSE new[d]]

ReshapeOk(old, new) ==
    LET total == Prod(old)
        known == Prod([d \in 1..Len(new) |-> IF new[d] = -1 THEN 1 ELSE new[d]])
    IN  IF \E d \in 1..Len(new) : new[d] = -1
        THEN known > 0 /\ total % known = 0
        ELSE known = total

\* tf.reshape(t, shape)
tf_reshape(t, shape) ==
    IF t.err \/ ~ReshapeOk(t.shape, shape) THEN TErr
    ELSE [shape |-> ReshapeShape(t.shape, shape), data |-> t.data, err |-> FALSE]

\* tf.concat([a, b], axis): axis is 0-based as in the source
tf_concat(a, b, axis) ==
    IF a.err \/ b.err THEN TErr
    ELSE LET n == Len(a.shape)
             ax == axis + 1
         IN  IF Len(b.shape) # n
                \/ \E d \in 1..n : d # ax /\ a.shape[d] # b.shape[d]
             THEN TErr
             ELSE Build([a.shape EXCEPT ![ax] = a.shape[ax] + b.shape[ax]],
                        LAMBDA idx : IF idx[ax] < a.shape[ax]
                                     THEN At(a, idx)
                                     ELSE At(b, [idx EXCEPT ![ax] = idx[ax] - a.shape[ax]]))

\* a + b for tensors of one shape (the sums of the code never broadcast)
tf_add(a, b) ==
    IF a.err \/ b.err THEN TErr
    ELSE IF a.shape # b.shape THEN TErr
    ELSE [shape |-> a.shape,
          data |-> [k \in 1..Len(a.data) |-> a.data[k] (+) b.data[k]],
          err |-> FALSE]

\* a tensor whose every element is its own symbol: its index tuple
Symbolic(shape) == Build(shape, LAMBDA idx : SetToBag({idx}))

(***************************************************************************)
(* Numbers and strings of the Python code                                  *)
(***************************************************************************)
\* A Python float is modelled as an exact rational <<numerator, denominator>>
\* with a positive denominator.
RatGt0(r) == r[1] > 0

RatNonZero(r) == r[1] # 0

RatEq(r, q) == r[1] * q[2] = q[1] * r[2]

RatLe(r, q) == r[1] * q[2] <= q[1] * r[2]

\* Python's None where the code expects a string
NoneStr == "<None>"

\* str.upper() and str.lower() on the strings the model draws
Upper(str) ==
    CASE str \in {"same", "Same", "SAME"} -> "SAME"
      [] str \in {"valid", "VALID"} -> "VALID"
      [] OTHER -> str

Lower(str) ==
    CASE str \in {"prelu", "PReLU", "PRELU"} -> "prelu"
      [] OTHER -> str

\* `name and name + suffix`: a falsy name (None or "") stays falsy
NameAnd(name, suffix) == IF name = "" THEN "" ELSE name \o suffix

(***************************************************************************)
(* common_layers.py: make_divisible                                        *)
(***************************************************************************)
\* make_divisible without its 10% correction
make_divisible_no_correction(vv, divisor, min_value) ==
    LET min_v == IF min_value = None THEN divisor ELSE min_value[1]
        int_v == (2 * vv[1] + divisor * vv[2]) \div (2 * vv[2])
    IN  Max2(min_v, (int_v \div divisor) * divisor)

\* vv is a rational; min_value is None or Some(integer)
make_divisible(vv, divisor, min_value) ==
    LET min_v == IF min_value = None THEN divisor ELSE min_value[1]
        \* int(vv + divisor / 2) for vv >= 0
        int_v == (2 * vv[1] + divisor * vv[2]) \div (2 * vv[2])
        new_v == Max2(min_v, (int_v \div divisor) * divisor)
    IN  \* new_v < 0.9 * vv
        IF 10 * new_v * vv[2] < 9 * vv[1] THEN new_v + divisor ELSE new_v

(***************************************************************************)
(* Keras graph tensors: the static shape without the batch dimension, the  *)
(* layers built so far in build order, and an error mark for a call that   *)
(* raises.  A layer records its kind, name, input shape, output shape and  *)
(* configuration.                                                          *)
(***************************************************************************)
Input(shape) == [shape |-> shape, layers |-> <<>>, err |-> FALSE]

Raise(x) == [x EXCEPT !.err = TRUE]

\* tensor x, in the graph as built up to tensor g
Then(g, x) == [shape |-> x.shape, layers |-> g.layers, err |-> g.err \/ x.err]

Layer(x, kind, name, out, cfg) ==
    IF x.err THEN x
    ELSE [shape |-> out,
          layers |-> Append(x.layers,
                            [kind |-> kind, name |-> name, inp |-> x.shape,
                             out |-> out, cfg |-> cfg]),
          err |-> FALSE]

Kinds(x) == [i \in 1..Len(x.layers) |-> x.layers[i].kind]

\* output length of a VALID convolution or pooling window
ValidOut(size, kernel, strides) == (size - kernel) \div strides + 1

\* keras.layers.ZeroPadding2D(padding=((top, bottom), (left, right)))
ZeroPadding2D(x, pad_h, pad_w, name) ==
    Layer(x, "ZeroPadding2D", name,
          <<x.shape[1] + pad_h[1] + pad_h[2], x.shape[2] + pad_w[1] + pad_w[2], x.shape[3]>>,
          <<pad_h, pad_w>>)

\* keras.layers.Conv2D(filters, kernel_size, strides, padding="VALID", groups)
Conv2D(x, filters, kernel_size, strides, groups, name) ==
    IF x.err THEN x
    ELSE IF \/ x.shape[1] < kernel_size \/ x.shape[2] < kernel_size
            \/ x.shape[3] % groups # 0 \/ filters % groups # 0
    THEN Raise(x)
    ELSE Layer(x, "Conv2D", name,
               <<ValidOut(x.shape[1], kernel_size, strides),
                 ValidOut(x.shape[2], kernel_size, strides), filters>>,
               [kernel_size |-> kernel_size, strides |-> strides, padding |-> "VALID",
                groups |-> groups])

\* keras.layers.DepthwiseConv2D(kernel_size, strides, padding="VALID")
DepthwiseConv2D(x, kernel_size, strides, name) ==
    IF x.err THEN x
    ELSE IF x.shape[1] < kernel_size \/ x.shape[2] < kernel_size
    THEN Raise(x)
    ELSE Layer(x, "DepthwiseConv2D", name,
               <<ValidOut(x.shape[1], kernel_size, strides),
                 ValidOut(x.shape[2], kernel_size, strides), x.shape[3]>>,
               [kernel_size |-> kernel_size, strides |-> strides, padding |-> "VALID",
                groups |-> x.shape[3]])

\* keras.layers.AvgPool2D / MaxPool2D(pool_size, strides, padding)
Pool2D(x, kind, pool_size, strides, padding, name) ==
    IF x.err THEN x
    ELSE IF padding = "SAME"
    THEN Layer(x, kind, name,
               <<CeilDiv(x.shape[1], strides), CeilDiv(x.shape[2], strides), x.shape[3]>>,
               [pool_size |-> pool_size, strides |-> strides, padding |-> padding])
    ELSE IF x.shape[1] < pool_size \/ x.shape[2] < pool_size
    THEN Raise(x)
    ELSE Layer(x, kind, name,
               <<ValidOut(x.shape[1], pool_size, strides),
                 ValidOut(x.shape[2], pool_size, strides), x.shape[3]>>,
               [pool_size |-> pool_size, strides |-> strides, padding |-> padding])

\* a layer that keeps the shape of its input
SameShape(x, kind, name, cfg) == Layer(x, kind, name, x.shape, cfg)

\* keras.layers.Dense(units): acts on the last dimension
Dense(x, units, name) ==
    Layer(x, "Dense", name, [x.shape EXCEPT ![Len(x.shape)] = units], units)

\* keras.layers.Add()([a, b]), b built last: the operands must have one shape
Add(a, b) ==
    IF a.err \/ b.err THEN Raise(b)
    ELSE IF a.shape # b.shape THEN Raise(b)
    ELSE Layer(b, "Add", "", b.shape, <<a.shape, b.shape>>)

\* keras.layers.Add()([shortcut, nn]), shortcut built before nn
AddShortcut(shortcut, nn) == Add(Then(nn, shortcut), nn)

\* if rate > 0: nn = keras.layers.Dropout(rate, noise_shape=noise_shape, name=name)(nn)
DropoutIf(nn, rate, name, noise_shape) ==
    IF RatGt0(rate)
    THEN SameShape(nn, "Dropout", name, [rate |-> rate, noise_shape |-> noise_shape])
    ELSE nn

\* tf.reshape(x, shape) on a graph tensor, shape = <<-1, ...>>: the batch is
\* inferred, so the graph builds whatever the sizes; `exact` records whether
\* one example's elements fill the new shape exactly (otherwise the reshape
\* fails when run, or moves elements across examples)
op_reshape(x, shape) ==
    Layer(x, "tf.reshape", "", Tail(shape), [exact |-> Prod(x.shape) = Prod(Tail(shape))])

\* tf.transpose(x, perm): perm is 0-based with the batch dimension first
op_transpose(x, perm) ==
    Layer(x, "tf.transpose", "", [d \in 1..Len(x.shape) |-> x.shape[perm[d + 1]]], perm)

\* tf.matmul(a, b), b built last: [..., m, n] @ [..., n, p]
op_matmul(a, b) ==
    IF a.err \/ b.err THEN Raise(b)
    ELSE LET na == Len(a.shape)
             nb == Len(b.shape)
         IN  IF \/ na # nb
                \/ SubSeq(a.shape, 1, na - 2) # SubSeq(b.shape, 1, nb - 2)
                \/ a.shape[na] # b.shape[nb - 1]
             THEN Raise(b)
             ELSE Layer(b, "tf.matmul", "", [b.shape EXCEPT ![nb - 1] = a.shape[na - 1]],
                        <<a.shape, b.shape>>)

\* x[:, sl_h, sl_w, :] on a graph tensor of shape <<height, width, channel>>
op_slice2d(x, sl_h, sl_w) ==
    Layer(x, "tf.slice", "",
          <<SliceLen(sl_h, x.shape[1]), SliceLen(sl_w, x.shape[2]), x.shape[3]>>,
          <<sl_h, sl_w>>)

(***************************************************************************)
(* common_layers.py: the layer helpers                                     *)
(***************************************************************************)
activation_by_name(inputs, activation, name) ==
    LET layer_name == IF name = "" \/ activation \in {"", NoneStr} THEN ""
                      ELSE name \o activation
    IN  IF activation = "hard_swish"
        THEN SameShape(inputs, "Activation", layer_name, "hard_swish")
        ELSE IF activation = NoneStr
        THEN Raise(inputs)      \* None.lower(): AttributeError
        ELSE IF Lower(activation) = "prelu"
        THEN SameShape(inputs, "PReLU", layer_name, "prelu")
        ELSE IF activation # ""
        THEN SameShape(inputs, "Activation", layer_name, activation)
        ELSE inputs

batchnorm_with_activation(inputs, activation, zero_gamma, act_first, name) ==
    LET truthy == activation \notin {"", NoneStr}
        first == IF act_first /\ truthy THEN activation_by_name(inputs, activation, name)
                 ELSE inputs
        nn == SameShape(first, "BatchNormalization", NameAnd(name, "bn"), zero_gamma)
    IN  IF ~act_first /\ truthy THEN activation_by_name(nn, activation, name) ELSE nn

\* conv2d_no_bias comparing padding with "SAME" without upper()
conv2d_no_bias_case_sensitive(inputs, filters, kernel_size, strides, padding, groups, name) ==
    LET pad == kernel_size \div 2
        padded == IF padding = "SAME" /\ pad # 0
                  THEN ZeroPadding2D(inputs, <<pad, pad>>, <<pad, pad>>, NameAnd(name, "pad"))
                  ELSE inputs
        groups1 == Max2(1, groups)
    IN  IF groups1 = filters
        THEN DepthwiseConv2D(padded, kernel_size, strides, NameAnd(name, "conv"))
        ELSE Conv2D(padded, filters, kernel_size, strides, groups1, NameAnd(name, "conv"))

\* kernel_size is an integer (the list form takes max(kernel_size) // 2)
conv2d_no_bias(inputs, filters, kernel_size, strides, padding, groups, name) ==
    LET pad == kernel_size \div 2
        padded == IF Upper(padding) = "SAME" /\ pad # 0
                  THEN ZeroPadding2D(inputs, <<pad, pad>>, <<pad, pad>>, NameAnd(name, "pad"))
                  ELSE inputs
        groups1 == Max2(1, groups)
    IN  IF groups1 = filters
        THEN DepthwiseConv2D(padded, kernel_size, strides, NameAnd(name, "conv"))
        ELSE Conv2D(padded, filters, kernel_size, strides, groups1, NameAnd(name, "conv"))

depthwise_conv2d_no_bias(inputs, kernel_size, strides, padding, name) ==
    LET pad == kernel_size \div 2
        padded == IF Upper(padding) = "SAME" /\ pad # 0
                  THEN ZeroPadding2D(inputs, <<pad, pad>>, <<pad, pad>>, NameAnd(name, "dw_pad"))
                  ELSE inputs
    IN  DepthwiseConv2D(padded, kernel_size, strides, NameAnd(name, "dw_conv"))

\* se_module with the hidden width int(filters * se_ratio), not made divisible
se_module_int_reduction(inputs, se_ratio, divisor, activation, name) ==
    LET filters == inputs.shape[3]
        reduction == (filters * se_ratio[1]) \div se_ratio[2]
        se0 == Layer(inputs, "tf.reduce_mean", "", <<1, 1, filters>>, <<1, 2>>)
        se1 == Conv2D(se0, reduction, 1, 1, 1, NameAnd(name, "1_conv"))
        se2 == activation_by_name(se1, activation, name)
        se3 == Conv2D(se2, filters, 1, 1, 1, NameAnd(name, "2_conv"))
        se4 == activation_by_name(se3, "sigmoid", name)
    IN  Layer(se4, "Multiply", NameAnd(name, "out"), inputs.shape, <<inputs.shape, se4.shape>>)

\* se_ratio is a rational
se_module(inputs, se_ratio, divisor, activation, name) ==
    LET filters == inputs.shape[3]
        reduction == make_divisible(<<filters * se_ratio[1], se_ratio[2]>>, divisor, None)
        se0 == Layer(inputs, "tf.reduce_mean", "", <<1, 1, filters>>, <<1, 2>>)
        se1 == Conv2D(se0, reduction, 1, 1, 1, NameAnd(name, "1_conv"))
        se2 == activation_by_name(se1, activation, name)
        se3 == Conv2D(se2, filters, 1, 1, 1, NameAnd(name, "2_conv"))
        se4 == activation_by_name(se3, "sigmoid", name)
    IN  Layer(se4, "Multiply", NameAnd(name, "out"), inputs.shape, <<inputs.shape, se4.shape>>)

\* drop_block with the noise shape of a rank-4 input, whatever the rank
drop_block_rank4(inputs, drop_rate, name) ==
    IF RatGt0(drop_rate)
    THEN SameShape(inputs, "Dropout", NameAnd(name, "drop"),
                   [rate |-> drop_rate, noise_shape |-> <<None, Some(1), Some(1), Some(1)>>])
    ELSE inputs

\* drop_rate is a rational; the noise shape has one entry per dimension of
\* inputs.shape, the batch dimension (None) first
drop_block(inputs, drop_rate, name) ==
    IF RatGt0(drop_rate)
    THEN LET noise_shape == <<None>> \o [i \in 1..Len(inputs.shape) |-> Some(1)]
         IN  SameShape(inputs, "Dropout", NameAnd(name, "drop"),
                       [rate |-> drop_rate, noise_shape |-> noise_shape])
    ELSE inputs

(***************************************************************************)
(* Calls of the layer helpers, one call per behaviour                      *)
(***************************************************************************)
Paddings == {"same", "SAME", "valid", "VALID"}

\* drop rates: -1/10, 0, 1/10, 1/2
DropRates == {<<-1, 10>>, <<0, 1>>, <<1, 10>>, <<1, 2>>}

MakeDivisibleCalls ==
    [fn : {"make_divisible"}, vv : (0..(MaxVv * VvDen)) \X {VvDen},
     divisor : 1..MaxDivisor, min_value : {None} \cup {Some(m) : m \in 0..MaxMinValue}]

\* groups of conv2d_no_bias: below 1, the default 1, and MaxChan
Conv2dGroups == {-1, 0, 1, MaxChan}

\* the calls that Keras accepts: a Conv2D with groups takes inputs and filters
\* that are multiples of groups
Conv2dCalls ==
    {c \in [fn : {"conv2d_no_bias"}, height : 1..MaxSide, width : 1..MaxSide,
            channel : 1..MaxChan, filters : 1..MaxChan, kernel_size : 1..MaxKernel,
            strides : 1..MaxStride, padding : Paddings, groups : Conv2dGroups] :
        \/ Max2(1, c.groups) = c.filters
        \/ c.channel % Max2(1, c.groups) = 0 /\ c.filters % Max2(1, c.groups) = 0}

DepthwiseCalls ==
    [fn : {"depthwise_conv2d_no_bias"}, height : 1..MaxSide, width : 1..MaxSide,
     channel : 1..MaxChan, kernel_size : 1..MaxKernel, strides : 1..MaxStride,
     padding : Paddings]

\* inputs of rank 2..MaxRank: the batch dimension and 1..MaxRank-1 more
DropBlockCalls ==
    [fn : {"drop_block"}, shape : UNION {[1..n -> 1..2] : n \in 1..(MaxRank - 1)},
     drop_rate : DropRates]

\* channel counts of se_module: one, MaxChan and 8 * MaxChan
SeChannels == {1, MaxChan, 8 * MaxChan}

\* se_ratio of se_module: 0, 1/16, 1/4, 1/2 and 1
SeModuleRatios == {<<0, 1>>, <<1, 16>>, <<1, 4>>, <<1, 2>>, <<1, 1>>}

\* divisor 8 is the default
SeModuleCalls ==
    [fn : {"se_module"}, height : 1..MaxSide, width : 1..MaxSide, channel : SeChannels,
     se_ratio : SeModuleRatios, divisor : (1..MaxDivisor) \cup {8},
     activation : {"relu", "hard_swish", "PReLU"}]

Call_make_divisible ==
    /\ pc = "ready"
    /\ call.fn = "make_divisible"
    /\ ret' = make_divisible(call.vv, call.divisor, call.min_value)
    /\ pc' = "done"
    /\ UNCHANGED call

\* groups is passed on as given
Call_conv2d_no_bias ==
    /\ pc = "ready"
    /\ call.fn = "conv2d_no_bias"
    /\ ret' = conv2d_no_bias(Input(<<call.height, call.width, call.channel>>), call.filters,
                             call.kernel_size, call.strides, call.padding, call.groups,
                             "c_")
    /\ pc' = "done"
    /\ UNCHANGED call

Call_depthwise_conv2d_no_bias ==
    /\ pc = "ready"
    /\ call.fn = "depthwise_conv2d_no_bias"
    /\ ret' = depthwise_conv2d_no_bias(Input(<<call.height, call.width, call.channel>>),
                                       call.kernel_size, call.strides, call.padding, "d_")
    /\ pc' = "done"
    /\ UNCHANGED call

Call_drop_block ==
    /\ pc = "ready"
    /\ call.fn = "drop_block"
    /\ ret' = drop_block(Input(call.shape), call.drop_rate, "b_")
    /\ pc' = "done"
    /\ UNCHANGED call

Call_se_module ==
    /\ pc = "ready"
    /\ call.fn = "se_module"
    /\ ret' = se_module(Input(<<call.height, call.width, call.channel>>), call.se_ratio,
                        call.divisor, call.activation, "s_")
    /\ pc' = "done"
    /\ UNCHANGED call

(***************************************************************************)
(* common_layers.py: anti_alias_downsample                                 *)
(***************************************************************************)
\* A numpy.poly1d with rational coefficients: the numerators of the
\* coefficients, highest power first, over one denominator.  The product of
\* two polynomials is the convolution of their coefficients.
poly1d_mul(p, q) ==
    [num |-> [n \in 1..(Len(p.num) + Len(q.num) - 1) |->
                 Sum([i \in 1..Len(p.num) |->
                         IF n - i + 1 \in 1..Len(q.num) THEN p.num[i] * q.num[n - i + 1]
                         ELSE 0])],
     den |-> p.den * q.den]

\* poly1d ** n: n multiplications, starting from the polynomial 1
RECURSIVE poly1d_pow(_, _)
poly1d_pow(p, n) ==
    IF n = 0 THEN [num |-> <<1>>, den |-> 1] ELSE poly1d_mul(p, poly1d_pow(p, n - 1))

\* an initializer that gives every weight 1 / kernel_size^2
anti_alias_downsample_initializer_box(weight_shape) ==
    Build(<<weight_shape[1], weight_shape[1], weight_shape[3], 1>>,
          LAMBDA idx : <<1, weight_shape[1] * weight_shape[1]>>)

\* anti_alias_downsample_initializer: the weights [kernel_size, kernel_size,
\* channel, 1], each a rational <<numerator, denominator>>
anti_alias_downsample_initializer(weight_shape) ==
    LET kernel_size == weight_shape[1]
        channel == weight_shape[3]
        ww == poly1d_pow([num |-> <<1, 1>>, den |-> 2], kernel_size - 1)
    IN  Build(<<Len(ww.num), Len(ww.num), channel, 1>>,
              LAMBDA idx : <<ww.num[idx[2] + 1] * ww.num[idx[1] + 1], ww.den * ww.den>>)

\* the DepthwiseConv2D layer with padding="SAME" on the graph, and the
\* weights its initializer gives the kernel of shape
\* (kernel_size, kernel_size, channel, 1)
anti_alias_downsample(inputs, kernel_size, strides, name) ==
    [output |-> Layer(inputs, "DepthwiseConv2D", NameAnd(name, "anti_alias_down"),
                      <<CeilDiv(inputs.shape[1], strides), CeilDiv(inputs.shape[2], strides),
                        inputs.shape[3]>>,
                      [kernel_size |-> kernel_size, strides |-> strides, padding |-> "SAME",
                       groups |-> inputs.shape[3]]),
     weights |-> anti_alias_downsample_initializer(<<kernel_size, kernel_size,
                                                     inputs.shape[3], 1>>)]

AntiAliasCalls ==
    [fn : {"anti_alias_downsample"}, height : 1..2, width : 1..2, channel : 1..MaxChan,
     kernel_size : 1..MaxKernel, strides : 1..MaxStride]

Call_anti_alias_downsample ==
    /\ pc = "ready"
    /\ call.fn = "anti_alias_downsample"
    /\ ret' = anti_alias_downsample(Input(<<call.height, call.width, call.channel>>),
                                    call.kernel_size, call.strides, "d_")
    /\ pc' = "done"
    /\ UNCHANGED call

\* activation names, the empty string and None
Activations == {"relu", "hard_swish", "PReLU", "sigmoid", "", NoneStr}

ActivationCalls ==
    [fn : {"activation_by_name"}, height : 1..2, width : 1..2, channel : 1..MaxChan,
     activation : Activations, name : {"", "a_"}]

BatchnormCalls ==
    [fn : {"batchnorm_with_activation"}, height : 1..2, width : 1..2, channel : 1..MaxChan,
     activation : Activations, zero_gamma : BOOLEAN, act_first : BOOLEAN, name : {"", "b_"}]

Call_activation_by_name ==
    /\ pc = "ready"
    /\ call.fn = "activation_by_name"
    /\ ret' = activation_by_name(Input(<<call.height, call.width, call.channel>>),
                                 call.activation, call.name)
    /\ pc' = "done"
    /\ UNCHANGED call

Call_batchnorm_with_activation ==
    /\ pc = "ready"
    /\ call.fn = "batchnorm_with_activation"
    /\ ret' = batchnorm_with_activation(Input(<<call.height, call.width, call.channel>>),
                                        call.activation, call.zero_gamma, call.act_first,
                                        call.name)
    /\ pc' = "done"
    /\ UNCHANGED call

InitLayers ==
    /\ call \in (MakeDivisibleCalls \cup Conv2dCalls \cup DepthwiseCalls \cup DropBlockCalls
                    \cup SeModuleCalls \cup ActivationCalls \cup BatchnormCalls
                    \cup AntiAliasCalls)
    /\ ret = None
    /\ pc = "ready"

NextLayers ==
    \/ Call_make_divisible
    \/ Call_conv2d_no_bias
    \/ Call_depthwise_conv2d_no_bias
    \/ Call_drop_block
    \/ Call_se_module
    \/ Call_activation_by_name
    \/ Call_batchnorm_with_activation
    \/ Call_anti_alias_downsample

SpecLayers == InitLayers /\ [][NextLayers]_vars

(***************************************************************************)
(* volo.py: UnfoldMatmulFold                                               *)
(***************************************************************************)
\* UnfoldMatmulFold.__init__ without the padding that makes the patches
\* number even
UnfoldMatmulFold_init_no_even_pad(final_output_shape, kernel_size, padding, strides) ==
    LET height == final_output_shape[1]
        width == final_output_shape[2]
        channel == final_output_shape[3]
        overlap_pad == <<0, 2 * strides - kernel_size>>
        pad == kernel_size \div 2
        out_start == IF padding = 1 THEN pad ELSE 0
    IN  [kernel_size |-> kernel_size,
         padding |-> padding,
         strides |-> strides,
         final_output_shape |-> <<height, width, channel>>,
         out_channel |-> channel,
         fold_overlap_pad |-> <<(<<0, 0>>), (<<0, 0>>), (<<0, 0>>), overlap_pad, overlap_pad,
                                (<<0, 0>>)>>,
         patch_pad |-> IF padding = 1
                       THEN <<(<<0, 0>>), (<<pad, pad>>), (<<pad, pad>>), (<<0, 0>>)>>
                       ELSE <<(<<0, 0>>), (<<0, 0>>), (<<0, 0>>), (<<0, 0>>)>>,
         out_start_h |-> out_start,
         out_start_w |-> out_start,
         out_end_h |-> out_start + height,
         out_end_w |-> out_start + width]

\* UnfoldMatmulFold.__init__: the fields of self
UnfoldMatmulFold_init(final_output_shape, kernel_size, padding, strides) ==
    LET height == final_output_shape[1]
        width == final_output_shape[2]
        channel == final_output_shape[3]
        overlap_pad == <<0, 2 * strides - kernel_size>>
        hh_pad == IF CeilDiv(height, 2) % 2 = 0 THEN <<0, 0>> ELSE <<0, 1>>
        ww_pad == IF CeilDiv(width, 2) % 2 = 0 THEN <<0, 0>> ELSE <<0, 1>>
        pad == kernel_size \div 2
        out_start == IF padding = 1 THEN pad ELSE 0
    IN  [kernel_size |-> kernel_size,
         padding |-> padding,
         strides |-> strides,
         final_output_shape |-> <<height, width, channel>>,
         out_channel |-> channel,
         fold_overlap_pad |-> <<(<<0, 0>>), hh_pad, ww_pad, overlap_pad, overlap_pad, (<<0, 0>>)>>,
         patch_pad |-> IF padding = 1
                       THEN <<(<<0, 0>>), (<<pad, pad>>), (<<pad, pad>>), (<<0, 0>>)>>
                       ELSE <<(<<0, 0>>), (<<0, 0>>), (<<0, 0>>), (<<0, 0>>)>>,
         out_start_h |-> out_start,
         out_start_w |-> out_start,
         out_end_h |-> out_start + height,
         out_end_w |-> out_start + width]

\* pad_overlap padding every sub-grid at its end, whatever its start offset
pad_overlap_end_only(self, patches, start_h, start_w) ==
    LET bb0 == Slice(patches, <<All, (<<Some(start_h), None, 2>>), All,
                                (<<Some(start_w), None, 2>>), All, All>>)
        bb1 == IF bb0.err THEN TErr
               ELSE tf_reshape(bb0, <<-1, bb0.shape[2] * bb0.shape[3],
                                      bb0.shape[4] * bb0.shape[5], bb0.shape[6]>>)
    IN  tf_pad(bb1, <<(<<0, 0>>), (<<0, self.strides>>), (<<0, self.strides>>), (<<0, 0>>)>>)

\* UnfoldMatmulFold.pad_overlap
pad_overlap(self, patches, start_h, start_w) ==
    LET bb0 == Slice(patches, <<All, (<<Some(start_h), None, 2>>), All,
                                (<<Some(start_w), None, 2>>), All, All>>)
        bb1 == IF bb0.err THEN TErr
               ELSE tf_reshape(bb0, <<-1, bb0.shape[2] * bb0.shape[3],
                                      bb0.shape[4] * bb0.shape[5], bb0.shape[6]>>)
        pad_h == IF start_h = 0 THEN <<0, self.strides>> ELSE <<self.strides, 0>>
        pad_w == IF start_w = 0 THEN <<0, self.strides>> ELSE <<self.strides, 0>>
    IN  tf_pad(bb1, <<(<<0, 0>>), pad_h, pad_w, (<<0, 0>>)>>)

\* UnfoldMatmulFold.fold_overlap_1
fold_overlap_1(self, patches) ==
    LET aa0 == tf_pad(patches, self.fold_overlap_pad)
        aa == tf_transpose(aa0, <<0, 1, 3, 2, 4, 5>>)
        cc == tf_add(tf_add(tf_add(pad_overlap(self, aa, 0, 0), pad_overlap(self, aa, 0, 1)),
                            pad_overlap(self, aa, 1, 0)),
                     pad_overlap(self, aa, 1, 1))
    IN  Slice(cc, <<All, Sl(Some(self.out_start_h), Some(self.out_end_h)),
                    Sl(Some(self.out_start_w), Some(self.out_end_w)), All>>)

(***************************************************************************)
(* Calls of fold_overlap_1: kernel_size=3, strides=2, padding=1, on the    *)
(* patches of a height x width map (ceil(height/2) x ceil(width/2) patches *)
(* of 3 x 3 entries, as UnfoldMatmulFold.call hands them over).            *)
(***************************************************************************)
FoldCalls ==
    [fn : {"fold_overlap_1"}, batch : 1..MaxBatch, height : 1..MaxSide,
     width : 1..MaxSide, channel : 1..MaxChan]

FoldPatches(c) ==
    Symbolic(<<c.batch, CeilDiv(c.height, 2), CeilDiv(c.width, 2), 3, 3, c.channel>>)

\* the first action: UnfoldMatmulFold.fold_overlap_1 applied to the drawn patches
Call_fold_overlap_1 ==
    /\ pc = "ready"
    /\ call.fn = "fold_overlap_1"
    /\ ret' = fold_overlap_1(
                UnfoldMatmulFold_init(<<call.height, call.width, call.channel>>, 3, 1, 2),
                FoldPatches(call))
    /\ pc' = "done"
    /\ UNCHANGED call

(***************************************************************************)
(* volo.py: UnfoldMatmulFold.call, on one example.  extract_patches is      *)
(* tf.image.extract_patches (no TPU).  The result records the shapes of the *)
(* steps: the padded values, the patches, whether the reshape of the        *)
(* patches to the grid of attn holds exactly one example's elements, the    *)
(* patches after fold_overlap_pad, the four sub-grids of pad_overlap, and   *)
(* the output.                                                              *)
(***************************************************************************)
\* number of windows of tf.image.extract_patches with padding="VALID"
PatchCount(size, kernel_size, strides) == (size - kernel_size + strides) \div strides

\* the shapes of fold_overlap_1(mm) and of its steps, mm a tensor of patches
fold_shapes(self, mm) ==
    [aa |-> tf_pad(mm, self.fold_overlap_pad).shape,
     overlaps |-> [start \in {0, 1} \X {0, 1} |->
                      LET bb == pad_overlap(self,
                                            tf_transpose(tf_pad(mm, self.fold_overlap_pad),
                                                         <<0, 1, 3, 2, 4, 5>>),
                                            start[1], start[2])
                      IN  IF bb.err THEN <<>> ELSE bb.shape],
     output |-> fold_overlap_1(self, mm).shape,
     err |-> fold_overlap_1(self, mm).err]

\* vv_shape and attn_shape are the shapes of inputs[0] and inputs[1] without
\* the batch dimension
UnfoldMatmulFold_call(self, vv_shape, attn_shape) ==
    LET hh == attn_shape[1]
        ww == attn_shape[2]
        num_head == attn_shape[3]
        pad_vv == <<vv_shape[1] + self.patch_pad[2][1] + self.patch_pad[2][2],
                    vv_shape[2] + self.patch_pad[3][1] + self.patch_pad[3][2], vv_shape[3]>>
        patches == <<PatchCount(pad_vv[1], self.kernel_size, self.strides),
                     PatchCount(pad_vv[2], self.kernel_size, self.strides),
                     self.kernel_size * self.kernel_size * pad_vv[3]>>
        mm == <<hh, ww, self.kernel_size * self.kernel_size, num_head,
                self.out_channel \div num_head>>
        fold == fold_shapes(self, Symbolic(<<1, hh, ww, self.kernel_size, self.kernel_size,
                                             self.out_channel>>))
    IN  [pad_vv |-> pad_vv,
         patches |-> patches,
         mm |-> mm,
         exact |-> Prod(patches) = Prod(mm),
         aa |-> Tail(fold.aa),
         overlaps |-> fold.overlaps,
         output |-> fold.output,
         \* output.set_shape((None, *self.final_output_shape))
         err |-> fold.err \/ Tail(fold.output) # self.final_output_shape]

\* Calls of UnfoldMatmulFold as outlook_attention makes them: kernel_size=3,
\* strides=2, the values height x width x embed_dim and the attention weights
\* on a grid of ceil(height / 2) x ceil(width / 2); padding is 1 or not
UnfoldCalls ==
    [fn : {"UnfoldMatmulFold"}, height : 1..MaxSide, width : 1..MaxSide,
     embed_head : {<<2, 1>>, <<2, 2>>}, padding : {0, 1}]

Call_UnfoldMatmulFold ==
    /\ pc = "ready"
    /\ call.fn = "UnfoldMatmulFold"
    /\ ret' = UnfoldMatmulFold_call(
                UnfoldMatmulFold_init(<<call.height, call.width, call.embed_head[1]>>, 3,
                                      call.padding, 2),
                <<call.height, call.width, call.embed_head[1]>>,
                <<CeilDiv(call.height, 2), CeilDiv(call.width, 2), call.embed_head[2], 9, 9>>)
    /\ pc' = "done"
    /\ UNCHANGED call

(***************************************************************************)
(* common_layers.py: tpu_extract_patches_overlap_1                         *)
(***************************************************************************)
\* sizes and strides are the scalars the code extracts from its arguments
tpu_extract_patches_overlap_1(inputs, sizes, strides, padding) ==
    LET kernel_size == sizes
        pad == kernel_size \div 2
        pad_inputs == IF padding = "SAME"
                      THEN tf_pad(inputs, <<(<<0, 0>>), (<<pad, pad>>), (<<pad, pad>>), (<<0, 0>>)>>)
                      ELSE inputs
        ww == pad_inputs.shape[2]
        hh == pad_inputs.shape[3]
        cc == pad_inputs.shape[4]
        num_patches == CeilDiv(ww, strides) - 1
        valid_ww == num_patches * strides
        overlap_s == kernel_size - strides
        temp_shape == <<-1, num_patches, strides, num_patches, strides, cc>>
        lo == Sl(None, Some(valid_ww))
        hi == Sl(Some(overlap_s), Some(valid_ww + overlap_s))
        last == Sl(Some(-overlap_s), None)
        center == tf_reshape(Slice(pad_inputs, <<All, lo, lo, All>>), temp_shape)
        ww_overlap == tf_reshape(Slice(pad_inputs, <<All, lo, hi, All>>), temp_shape)
        hh_overlap == tf_reshape(Slice(pad_inputs, <<All, hi, lo, All>>), temp_shape)
        corner_overlap == tf_reshape(Slice(pad_inputs, <<All, hi, hi, All>>), temp_shape)
        aa == tf_concat(center, Slice(ww_overlap, <<All, All, All, All, last, All>>), 4)
        bb == tf_concat(Slice(hh_overlap, <<All, All, last, All, All, All>>),
                        Slice(corner_overlap, <<All, All, last, All, last, All>>), 4)
        out == tf_transpose(tf_concat(aa, bb, 2), <<0, 1, 3, 2, 4, 5>>)
    IN  tf_reshape(out, <<-1, num_patches, num_patches, kernel_size * kernel_size * cc>>)

\* Calls of tpu_extract_patches_overlap_1 as UnfoldMatmulFold.call makes them:
\* sizes [1, 3, 3, 1], strides [1, 2, 2, 1], padding "VALID".
PatchCalls ==
    [fn : {"tpu_extract_patches_overlap_1"}, batch : 1..MaxBatch, height : 3..MaxSide,
     width : 3..MaxSide, channel : 1..MaxChan]

Call_tpu_extract_patches_overlap_1 ==
    /\ pc = "ready"
    /\ call.fn = "tpu_extract_patches_overlap_1"
    /\ ret' = tpu_extract_patches_overlap_1(
                Symbolic(<<call.batch, call.height, call.width, call.channel>>), 3, 2, "VALID")
    /\ pc' = "done"
    /\ UNCHANGED call

(***************************************************************************)
(* volo.py: outlook_attention_simple                                       *)
(***************************************************************************)
\* attn_dropout is a rational
outlook_attention_simple(inputs, embed_dim, num_head, kernel_size, attn_dropout, name) ==
    LET key_dim == embed_dim \div num_head
        height == inputs.shape[1]
        width == inputs.shape[2]
        hh == CeilDiv(height, kernel_size)
        ww == CeilDiv(width, kernel_size)
        padded == hh * kernel_size - height
        inputs1 == IF padded # 0
                   THEN ZeroPadding2D(inputs, <<0, padded>>, <<0, padded>>, "")
                   ELSE inputs
        vv0 == Dense(inputs1, embed_dim, name \o "v")
        vv1 == op_reshape(vv0, <<-1, hh, kernel_size, ww, kernel_size, num_head, key_dim>>)
        vv2 == op_transpose(vv1, <<0, 1, 3, 5, 2, 4, 6>>)
        vv == op_reshape(vv2, <<-1, hh, ww, num_head, kernel_size * kernel_size, key_dim>>)
        attn0 == Pool2D(Then(vv, inputs1), "AveragePooling2D", kernel_size, kernel_size,
                        "valid", "")
        attn1 == Dense(attn0, kernel_size * kernel_size * kernel_size * kernel_size * num_head,
                       name \o "attn")
        attn2 == SameShape(attn1, "tf.math.truediv", "", "qk_scale")
        attn3 == op_reshape(attn2, <<-1, hh, ww, num_head, kernel_size * kernel_size,
                                    kernel_size * kernel_size>>)
        attn4 == SameShape(attn3, "tf.nn.softmax", "", -1)
        attn == IF RatGt0(attn_dropout)
                THEN SameShape(attn4, "Dropout", "", [rate |-> attn_dropout, noise_shape |-> None])
                ELSE attn4
        out0 == op_matmul(attn, Then(attn, vv))
        out1 == op_reshape(out0, <<-1, hh, ww, num_head, kernel_size, kernel_size, key_dim>>)
        out2 == op_transpose(out1, <<0, 1, 4, 2, 5, 3, 6>>)
        out3 == op_reshape(out2, <<-1, inputs1.shape[1], inputs1.shape[2], embed_dim>>)
        out4 == IF padded # 0
                THEN op_slice2d(out3, Sl(None, Some(-padded)), Sl(None, Some(-padded)))
                ELSE out3
    IN  Dense(out4, embed_dim, name \o "out")

\* Calls of outlook_attention_simple: embed_dim is a multiple of num_head, as
\* in every VOLO configuration
EmbedHeads == {<<2, 1>>, <<2, 2>>, <<4, 2>>}

OutlookSimpleCalls ==
    [fn : {"outlook_attention_simple"}, height : 1..MaxSide, width : 1..MaxSide,
     channel : 1..MaxChan, embed_head : EmbedHeads, kernel_size : 1..3]

Call_outlook_attention_simple ==
    /\ pc = "ready"
    /\ call.fn = "outlook_attention_simple"
    /\ ret' = outlook_attention_simple(Input(<<call.height, call.width, call.channel>>),
                                       call.embed_head[1], call.embed_head[2],
                                       call.kernel_size, <<0, 1>>, "a_")
    /\ pc' = "done"
    /\ UNCHANGED call

\* The UnfoldMatmulFold layer is applied as one layer of the graph: the
\* reshapes of `call` infer the batch, and set_shape gives the output the
\* static shape final_output_shape.
outlook_attention(inputs, embed_dim, num_head, kernel_size, padding, strides, attn_dropout, output_dropout, name) ==
    LET height == inputs.shape[1]
        width == inputs.shape[2]
        hh == CeilDiv(height, strides)
        ww == CeilDiv(width, strides)
        vv == Dense(inputs, embed_dim, name \o "v")
        attn0 == Pool2D(Then(vv, inputs), "AveragePooling2D", strides, strides, "valid", "")
        attn1 == Dense(attn0, kernel_size * kernel_size * kernel_size * kernel_size * num_head,
                       name \o "attn")
        attn2 == SameShape(attn1, "tf.math.truediv", "", "qk_scale")
        attn3 == op_reshape(attn2, <<-1, hh, ww, num_head, kernel_size * kernel_size,
                                    kernel_size * kernel_size>>)
        attn4 == SameShape(attn3, "tf.nn.softmax", "", -1)
        attention_weights ==
            IF RatGt0(attn_dropout)
            THEN SameShape(attn4, "Dropout", "", [rate |-> attn_dropout, noise_shape |-> None])
            ELSE attn4
        self == UnfoldMatmulFold_init(<<height, width, embed_dim>>, kernel_size, padding, strides)
        folded == Layer(Then(attention_weights, vv), "UnfoldMatmulFold", "",
                        self.final_output_shape, <<vv.shape, attention_weights.shape>>)
        output == Dense(folded, embed_dim, name \o "out")
    IN  IF RatGt0(output_dropout)
        THEN SameShape(output, "Dropout", "", [rate |-> output_dropout, noise_shape |-> None])
        ELSE output

\* Calls of outlook_attention with the kernel_size=3, strides=2 of every VOLO
\* configuration; padding is 1 or not
OutlookCalls ==
    [fn : {"outlook_attention"}, height : 1..MaxSide, width : 1..MaxSide,
     channel : {1, MaxChan}, embed_head : EmbedHeads, padding : {0, 1}]

Call_outlook_attention ==
    /\ pc = "ready"
    /\ call.fn = "outlook_attention"
    /\ ret' = outlook_attention(Input(<<call.height, call.width, call.channel>>),
                                call.embed_head[1], call.embed_head[2], 3, call.padding, 2,
                                <<0, 1>>, <<0, 1>>, "o_")
    /\ pc' = "done"
    /\ UNCHANGED call

(***************************************************************************)
(* volo.py: MixupToken                                                     *)
(***************************************************************************)
\* t[::-1]: the examples in reverse order
tf_reverse0(t) ==
    IF t.err THEN TErr
    ELSE Build(t.shape, LAMBDA idx : At(t, [idx EXCEPT ![1] = t.shape[1] - 1 - idx[1]]))

\* MixupToken.call: the box of the training phase, or no mixup area for test
MixupToken_call(training, train_bbox) == IF training THEN train_bbox ELSE <<0, 0, 0, 0>>

\* do_mixup_token: tf.concat([sub_ww[:, :top], sub_ww[::-1, top:bottom], sub_ww[:, bottom:]], axis=1)
mix_sub(sub_ww, top, bottom) ==
    tf_concat(tf_concat(Slice(sub_ww, <<All, Sl(None, Some(top)), All, All>>),
                        Slice(tf_reverse0(sub_ww), <<All, Sl(Some(top), Some(bottom)), All, All>>),
                        1),
              Slice(sub_ww, <<All, Sl(Some(bottom), None), All, All>>), 1)

\* do_mixup_token with sub_ww[:, top:bottom] in the place of sub_ww[::-1, top:bottom]
MixupToken_do_mixup_token_no_flip(inputs, bbox) ==
    tf_concat(tf_concat(Slice(inputs, <<All, All, Sl(None, Some(bbox[1])), All>>),
                        Slice(inputs, <<All, All, Sl(Some(bbox[1]), Some(bbox[3])), All>>), 2),
              Slice(inputs, <<All, All, Sl(Some(bbox[3]), None), All>>), 2)

\* MixupToken.do_mixup_token on a tensor [batch, height, width, channel];
\* bbox = (left, top, right, bottom)
MixupToken_do_mixup_token(inputs, bbox) ==
    tf_concat(tf_concat(Slice(inputs, <<All, All, Sl(None, Some(bbox[1])), All>>),
                        mix_sub(Slice(inputs, <<All, All, Sl(Some(bbox[1]), Some(bbox[3])), All>>),
                                bbox[2], bbox[4]),
                        2),
              Slice(inputs, <<All, All, Sl(Some(bbox[3]), None), All>>), 2)

\* boxes (left, top, right, bottom) on a grid of height x width with
\* left <= right and top <= bottom, as rand_bbox makes them
Boxes(height, width) ==
    {b \in (0..width) \X (0..height) \X (0..width) \X (0..height) :
        b[1] <= b[3] /\ b[2] <= b[4]}

MixupCalls ==
    UNION {[fn : {"do_mixup_token"}, batch : {batch}, height : {height}, width : {width},
            training : BOOLEAN, bbox : Boxes(height, width)] :
              <<batch, height, width>> \in (1..(MaxBatch + 1)) \X (1..MaxGrid) \X (1..MaxGrid)}

\* the box of MixupToken.call is applied, and applied again to the result
Call_do_mixup_token ==
    /\ pc = "ready"
    /\ call.fn = "do_mixup_token"
    /\ ret' = [output |-> MixupToken_do_mixup_token(
                              Symbolic(<<call.batch, call.height, call.width, 1>>),
                              MixupToken_call(call.training, call.bbox)),
               twice |-> MixupToken_do_mixup_token(
                             MixupToken_do_mixup_token(
                                 Symbolic(<<call.batch, call.height, call.width, 1>>),
                                 MixupToken_call(call.training, call.bbox)),
                             MixupToken_call(call.training, call.bbox))]
    /\ pc' = "done"
    /\ UNCHANGED call

\* tf.cast(tf.cast(size, dtype) * tf.sqrt(1.0 - random_lam), "int32"), random_lam
\* a rational in [0, 1]: the integer n with n^2 <= size^2 * (1 - random_lam) < (n + 1)^2
cut_size(size, random_lam) ==
    CHOOSE n \in 0..size :
        /\ n * n * random_lam[2] <= size * size * (random_lam[2] - random_lam[1])
        /\ (n + 1) * (n + 1) * random_lam[2] > size * size * (random_lam[2] - random_lam[1])

\* rand_bbox without tf.maximum(left_pos, 0) and tf.maximum(top_pos, 0)
MixupToken_rand_bbox_no_clamp(scale, height, width, random_lam, right_pos, bottom_pos) ==
    <<right_pos - cut_size(width \div scale, random_lam) \div 2,
      bottom_pos - cut_size(height \div scale, random_lam) \div 2, right_pos, bottom_pos>>

\* MixupToken.rand_bbox; random_lam is the sample of the beta distribution,
\* right_pos and bottom_pos are the samples of tf.random.uniform
MixupToken_rand_bbox(scale, height, width, random_lam, right_pos, bottom_pos) ==
    <<Max2(right_pos - cut_size(width \div scale, random_lam) \div 2, 0),
      Max2(bottom_pos - cut_size(height \div scale, random_lam) \div 2, 0), right_pos,
      bottom_pos>>

\* VOLO: lam = 1 - ((right - left) * (bottom - top) / nn_aux.shape[1]), a
\* rational; nn_aux.shape[1] is height * width of the token grid
VOLO_lam(bbox, height, width) ==
    <<height * width - (bbox[3] - bbox[1]) * (bbox[4] - bbox[2]), height * width>>

\* samples of the beta distribution: the eighths of [0, 1]
RandomLams == {<<n, 8>> : n \in 0..8}

\* Calls of rand_bbox on the output of the stem, with the scale=2 of VOLO
RandBboxCalls ==
    [fn : {"rand_bbox"}, scale : {2}, height : 2..MaxSide, width : 2..MaxSide,
     random_lam : RandomLams]

\* rand_bbox with its random draws, and the lam that VOLO computes from the
\* box on the token grid, which the downsampling by 2 makes
\* height // 2 x width // 2
Call_rand_bbox ==
    /\ pc = "ready"
    /\ call.fn = "rand_bbox"
    /\ \E right_pos \in 0..(call.width \div call.scale - 1) :
         \E bottom_pos \in 0..(call.height \div call.scale - 1) :
            ret' = [bbox |-> MixupToken_rand_bbox(call.scale, call.height, call.width,
                                                  call.random_lam, right_pos, bottom_pos),
                    lam |-> VOLO_lam(MixupToken_rand_bbox(call.scale, call.height, call.width,
                                                          call.random_lam, right_pos,
                                                          bottom_pos),
                                     call.height \div 2, call.width \div 2)]
    /\ pc' = "done"
    /\ UNCHANGED call

(***************************************************************************)
(* The tensor operators of VOLO, one call per behaviour                    *)
(***************************************************************************)
InitTensor ==
    /\ call \in (FoldCalls \cup PatchCalls \cup OutlookSimpleCalls \cup UnfoldCalls
                    \cup OutlookCalls \cup MixupCalls \cup RandBboxCalls)
    /\ ret = None
    /\ pc = "ready"

NextTensor ==
    \/ Call_fold_overlap_1
    \/ Call_tpu_extract_patches_overlap_1
    \/ Call_outlook_attention_simple
    \/ Call_UnfoldMatmulFold
    \/ Call_outlook_attention
    \/ Call_do_mixup_token
    \/ Call_rand_bbox

SpecTensor == InitTensor /\ [][NextTensor]_vars

(***************************************************************************)
(* coatnet.py: the residual blocks                                         *)
(***************************************************************************)
\* mhsa_with_relative_position_embedding (attention_layers, not part of the
\* sources at hand): relative-position multi-head self-attention, which keeps
\* the spatial size and projects to out_shape channels
mhsa_with_relative_position_embedding(inputs, num_heads, key_dim, out_shape, name) ==
    Layer(inputs, "mhsa_with_relative_position_embedding", name,
          <<inputs.shape[1], inputs.shape[2], out_shape>>,
          [num_heads |-> num_heads, key_dim |-> key_dim])

\* shortcut of res_MBConv and res_mhsa
res_shortcut(inputs, preact, output_channel, conv_short_cut, strides, name) ==
    IF conv_short_cut
    THEN LET pooled == IF strides > 1
                       THEN Pool2D(preact, "AvgPool2D", strides, strides, "SAME",
                                   name \o "shortcut_pool")
                       ELSE preact
         IN  conv2d_no_bias(pooled, output_channel, 1, 1, "VALID", 1, name \o "shortcut_")
    ELSE Then(preact, inputs)

\* res_MBConv without the depthwise stride: the stride is left out of MB_
res_MBConv_unstrided(inputs, output_channel, conv_short_cut, strides, expansion, se_ratio, drop_rate, activation, name) ==
    LET preact == batchnorm_with_activation(inputs, activation, FALSE, FALSE, name \o "preact_")
        shortcut == res_shortcut(inputs, preact, output_channel, conv_short_cut, strides, name)
        input_channel == inputs.shape[3]
        nn0 == conv2d_no_bias(Then(shortcut, preact), input_channel * expansion, 1, 1, "same", 1,
                              name \o "expand_")
        nn1 == batchnorm_with_activation(nn0, activation, FALSE, FALSE, name \o "expand_")
        nn2 == depthwise_conv2d_no_bias(nn1, 3, 1, "same", name \o "MB_")
        nn3 == batchnorm_with_activation(nn2, activation, FALSE, FALSE, name \o "MB_dw_")
        nn4 == IF RatNonZero(se_ratio)
               THEN se_module(nn3, <<se_ratio[1], se_ratio[2] * expansion>>, 8, activation,
                              name \o "se_")
               ELSE nn3
        nn5 == conv2d_no_bias(nn4, output_channel, 1, 1, "same", 1, name \o "MB_pw_")
        nn == drop_block(nn5, drop_rate, name)
    IN  Add(shortcut, nn)

\* res_MBConv with squeeze-excite placed after the projection
res_MBConv_se_last(inputs, output_channel, conv_short_cut, strides, expansion, se_ratio, drop_rate, activation, name) ==
    LET preact == batchnorm_with_activation(inputs, activation, FALSE, FALSE, name \o "preact_")
        shortcut == res_shortcut(inputs, preact, output_channel, conv_short_cut, strides, name)
        input_channel == inputs.shape[3]
        nn0 == conv2d_no_bias(Then(shortcut, preact), input_channel * expansion, 1, 1, "same", 1,
                              name \o "expand_")
        nn1 == batchnorm_with_activation(nn0, activation, FALSE, FALSE, name \o "expand_")
        nn2 == depthwise_conv2d_no_bias(nn1, 3, strides, "same", name \o "MB_")
        nn3 == batchnorm_with_activation(nn2, activation, FALSE, FALSE, name \o "MB_dw_")
        nn4 == conv2d_no_bias(nn3, output_channel, 1, 1, "same", 1, name \o "MB_pw_")
        nn5 == IF RatNonZero(se_ratio)
               THEN se_module(nn4, <<se_ratio[1], se_ratio[2] * expansion>>, 8, activation,
                              name \o "se_")
               ELSE nn4
        nn == drop_block(nn5, drop_rate, name)
    IN  Add(shortcut, nn)

\* se_ratio and drop_rate are rationals
res_MBConv(inputs, output_channel, conv_short_cut, strides, expansion, se_ratio, drop_rate, activation, name) ==
    LET preact == batchnorm_with_activation(inputs, activation, FALSE, FALSE, name \o "preact_")
        shortcut == res_shortcut(inputs, preact, output_channel, conv_short_cut, strides, name)
        input_channel == inputs.shape[3]
        nn0 == conv2d_no_bias(Then(shortcut, preact), input_channel * expansion, 1, 1, "same", 1,
                              name \o "expand_")
        nn1 == batchnorm_with_activation(nn0, activation, FALSE, FALSE, name \o "expand_")
        nn2 == depthwise_conv2d_no_bias(nn1, 3, strides, "same", name \o "MB_")
        nn3 == batchnorm_with_activation(nn2, activation, FALSE, FALSE, name \o "MB_dw_")
        nn4 == IF RatNonZero(se_ratio)
               THEN se_module(nn3, <<se_ratio[1], se_ratio[2] * expansion>>, 8, activation,
                              name \o "se_")
               ELSE nn3
        nn5 == conv2d_no_bias(nn4, output_channel, 1, 1, "same", 1, name \o "MB_pw_")
        nn == drop_block(nn5, drop_rate, name)
    IN  Add(shortcut, nn)

res_ffn(inputs, expansion, kernel_size, drop_rate, activation, name) ==
    LET preact == batchnorm_with_activation(inputs, activation, FALSE, FALSE, name \o "preact_")
        input_channel == inputs.shape[3]
        nn0 == conv2d_no_bias(preact, input_channel * expansion, kernel_size, 1, "VALID", 1,
                              name \o "1_")
        nn1 == batchnorm_with_activation(nn0, activation, FALSE, FALSE, name \o "ffn_")
        nn2 == conv2d_no_bias(nn1, input_channel, kernel_size, 1, "VALID", 1, name \o "2_")
        nn == drop_block(nn2, drop_rate, name)
    IN  Add(Then(nn, inputs), nn)

res_mhsa(inputs, output_channel, conv_short_cut, strides, head_dimension, drop_rate, activation, name) ==
    LET preact == batchnorm_with_activation(inputs, activation, FALSE, FALSE, name \o "preact_")
        shortcut == res_shortcut(inputs, preact, output_channel, conv_short_cut, strides, name)
        nn0 == IF strides # 1
               THEN Pool2D(Then(shortcut, preact), "MaxPool2D", 2, strides, "SAME",
                           name \o "pool")
               ELSE Then(shortcut, preact)
        num_heads == nn0.shape[3] \div head_dimension
        nn1 == mhsa_with_relative_position_embedding(nn0, num_heads, head_dimension,
                                                     output_channel, name \o "mhsa")
        nn == drop_block(nn1, drop_rate, name)
    IN  Add(shortcut, nn)

(***************************************************************************)
(* coatnet.py: CoAtNet                                                     *)
(***************************************************************************)
\* block_type[0].lower() == "c"
is_conv_block(block_type) == block_type \in {"conv", "Conv", "c", "C"}

\* drop_connect_rate * global_block_id / total_blocks, as a rational
block_drop_rate(drop_connect_rate, global_block_id, total_blocks) ==
    <<drop_connect_rate[1] * global_block_id, drop_connect_rate[2] * total_blocks>>

\* "stage_{}_block_{}_".format(stack_id + 1, block_id + 1)
block_name(stack_id, block_id) ==
    "stage_" \o ToString(stack_id + 1) \o "_block_" \o ToString(block_id + 1) \o "_"

\* a block of CoAtNet that is strided and projects its shortcut whatever its
\* place in the stack
CoAtNet_block_every_strided(nn, c, stack_id, block_id, rate) ==
    IF is_conv_block(c.block_types[stack_id + 1])
    THEN res_MBConv(nn, c.out_channels[stack_id + 1], TRUE, 2, c.expansion, c.se_ratio, rate,
                    c.activation, block_name(stack_id, block_id))
    ELSE res_ffn(res_mhsa(nn, c.out_channels[stack_id + 1], TRUE, 2, c.head_dimension, rate,
                          c.activation, block_name(stack_id, block_id)),
                 c.expansion, 1, rate, c.activation,
                 block_name(stack_id, block_id) \o "ffn_")

\* one block of CoAtNet: block block_id of stack stack_id (both 0-based), the
\* first block of a stack with strides 2 and a convolution shortcut
CoAtNet_block(nn, c, stack_id, block_id, rate) ==
    IF is_conv_block(c.block_types[stack_id + 1])
    THEN res_MBConv(nn, c.out_channels[stack_id + 1], block_id = 0,
                    IF block_id = 0 THEN 2 ELSE 1, c.expansion, c.se_ratio, rate,
                    c.activation, block_name(stack_id, block_id))
    ELSE res_ffn(res_mhsa(nn, c.out_channels[stack_id + 1], block_id = 0,
                          IF block_id = 0 THEN 2 ELSE 1, c.head_dimension, rate,
                          c.activation, block_name(stack_id, block_id)),
                 c.expansion, 1, rate, c.activation,
                 block_name(stack_id, block_id) \o "ffn_")

\* the loops over the stacks and their blocks, from block block_id of stack
\* stack_id on (both 0-based); zip stops at the shortest of its three lists
RECURSIVE CoAtNet_stages(_, _, _, _, _)
CoAtNet_stages(nn, c, stack_id, block_id, global_block_id) ==
    IF stack_id >= Min2(Len(c.num_blocks), Min2(Len(c.out_channels), Len(c.block_types)))
    THEN nn
    ELSE IF block_id >= c.num_blocks[stack_id + 1]
    THEN CoAtNet_stages(nn, c, stack_id + 1, 0, global_block_id)
    ELSE CoAtNet_stages(CoAtNet_block(nn, c, stack_id, block_id,
                                      block_drop_rate(c.drop_connect_rate, global_block_id,
                                                      Sum(c.num_blocks))),
                        c, stack_id, block_id + 1, global_block_id + 1)

\* CoAtNet: the stem
CoAtNet_stem(c, inputs) ==
    conv2d_no_bias(batchnorm_with_activation(conv2d_no_bias(inputs, c.stem_width, 3, 2, "same",
                                                            1, "stem_1_"),
                                             c.activation, FALSE, FALSE, "stem_1_"),
                   c.stem_width, 3, 1, "same", 1, "stem_2_")

\* CoAtNet: the classifier head, if num_classes > 0
CoAtNet_head(c, nn) ==
    IF c.num_classes > 0
    THEN Dense(DropoutIf(Layer(nn, "GlobalAveragePooling2D", "avg_pool", <<nn.shape[3]>>,
                               None),
                         c.drop_rate, "", None),
               c.num_classes, "predictions")
    ELSE nn

\* c holds the arguments; se_ratio is one number for all blocks
CoAtNet(c) == CoAtNet_head(c, CoAtNet_stages(CoAtNet_stem(c, Input(c.input_shape)), c, 0, 0, 0))

(***************************************************************************)
(* volo.py: VOLO                                                           *)
(***************************************************************************)
\* the bias of the patch convolution (use_bias=True) does not show in the shape
patch_stem(inputs, hidden_dim, stem_width, patch_size, strides, activation, name) ==
    LET nn1 == conv2d_no_bias(inputs, hidden_dim, 7, strides, "same", 1, name \o "1_")
        nn2 == batchnorm_with_activation(nn1, activation, FALSE, FALSE, name \o "1_")
        nn3 == conv2d_no_bias(nn2, hidden_dim, 3, 1, "same", 1, name \o "2_")
        nn4 == batchnorm_with_activation(nn3, activation, FALSE, FALSE, name \o "2_")
        nn5 == conv2d_no_bias(nn4, hidden_dim, 3, 1, "same", 1, name \o "3_")
        nn6 == batchnorm_with_activation(nn5, activation, FALSE, FALSE, name \o "3_")
        patch_step == patch_size \div strides
    IN  conv2d_no_bias(nn6, stem_width, patch_step, patch_step, "VALID", 1, name \o "patch_")

\* inputs[:, start:stop] on a graph tensor
op_slice1(x, start, stop) ==
    Layer(x, "tf.slice", "", [x.shape EXCEPT ![1] = SliceLen(Sl(start, stop), x.shape[1])],
          <<start, stop>>)

\* inputs[:, 0] on a graph tensor
op_index1(x) == Layer(x, "tf.slice", "", Tail(x.shape), 0)

\* keras.layers.MultiHeadAttention(num_heads, key_dim, output_shape)(query, value),
\* value built last
MultiHeadAttention(query, value, num_heads, key_dim, output_shape, name) ==
    Layer(Then(value, query), "MultiHeadAttention", name,
          [query.shape EXCEPT ![Len(query.shape)] = output_shape],
          [num_heads |-> num_heads, key_dim |-> key_dim])

\* keras.layers.MultiHeadAttention(...)(query, value) followed by BiasLayer
mhsa_bias(query, value, embed_dim, num_head, name) ==
    SameShape(MultiHeadAttention(query, value, num_head, embed_dim \div num_head, embed_dim,
                                 name \o "attn_mhsa"),
              "BiasLayer", name \o "attn_bias", None)

\* attention_mlp_block, attention_type "class": the query is nn_1[:, :1, :]
class_attention(query, nn_1, embed_dim, num_head, name) ==
    mhsa_bias(query, Then(query, nn_1), embed_dim, num_head, name)

\* attention_mlp_block: the attention chosen by attention_type, on the
\* normalised inputs; attention_type None is NoneStr
attention_by_type(nn_1, embed_dim, num_head, attention_type, name) ==
    IF attention_type = "outlook"
    THEN outlook_attention(nn_1, embed_dim, num_head, 3, 1, 2, <<0, 1>>, <<0, 1>>,
                           name \o "attn_")
    ELSE IF attention_type = "outlook_simple"
    THEN outlook_attention_simple(nn_1, embed_dim, num_head, 3, <<0, 1>>, name \o "attn_")
    ELSE IF attention_type = "class"
    THEN class_attention(op_slice1(nn_1, None, Some(1)), nn_1, embed_dim, num_head, name)
    ELSE IF attention_type = "mhsa"
    THEN mhsa_bias(nn_1, nn_1, embed_dim, num_head, name)
    ELSE nn_1

\* attention_mlp_block: the attention branch with its drop-connect, added to nn_0
attention_branch(inputs, nn_0, embed_dim, num_head, attention_type, drop_rate, name) ==
    AddShortcut(nn_0,
                DropoutIf(attention_by_type(SameShape(Then(nn_0, inputs), "LayerNormalization",
                                                      name \o "LN", None),
                                            embed_dim, num_head, attention_type, name),
                          drop_rate, name \o "drop_1", <<None, Some(1), Some(1), Some(1)>>))

\* attention_mlp_block: the MLP
mlp(nn_1, embed_dim, mlp_ratio, dropout, name) ==
    DropoutIf(Dense(SameShape(Dense(SameShape(nn_1, "LayerNormalization", name \o "mlp_LN",
                                              None),
                                    embed_dim * mlp_ratio, name \o "mlp_dense_1"),
                              "tf.nn.gelu", "", None),
                    embed_dim, name \o "mlp_dense_2"),
              dropout, "", None)

\* attention_mlp_block: the MLP branch with its drop-connect, added to nn_1
mlp_branch(nn_1, embed_dim, mlp_ratio, drop_rate, dropout, name) ==
    AddShortcut(nn_1,
                DropoutIf(mlp(nn_1, embed_dim, mlp_ratio, dropout, name),
                          drop_rate, name \o "drop_2", <<None, Some(1), Some(1), Some(1)>>))

\* tf.concat([out, rest], axis=1), rest built last
concat_tokens(out, rest) ==
    Layer(Then(rest, out), "tf.concat", "",
          [out.shape EXCEPT ![1] = out.shape[1] + rest.shape[1]], 1)

\* attention_mlp_block: the class token is put back in front of the other tokens
class_output(inputs, out, attention_type) ==
    IF attention_type = "class"
    THEN concat_tokens(out, op_slice1(Then(out, inputs), Some(1), None))
    ELSE out

\* drop_rate and dropout are rationals; attention_type None is NoneStr
attention_mlp_block(inputs, embed_dim, num_head, mlp_ratio, attention_type, drop_rate, mlp_activation, dropout, name) ==
    class_output(inputs,
                 mlp_branch(attention_branch(inputs,
                                             IF attention_type = "class"
                                             THEN op_slice1(inputs, None, Some(1))
                                             ELSE inputs,
                                             embed_dim, num_head, attention_type, drop_rate,
                                             name),
                            embed_dim, mlp_ratio, drop_rate, dropout, name),
                 attention_type)

\* tf.concat([out, inputs], axis=1): the class token of the input is kept
class_output_tokens_all(inputs, out) == tf_concat(out, inputs, 1)

\* attention_mlp_block, attention_type "class", on the tokens themselves:
\* tf.concat([out, inputs[:, 1:]], axis=1)
class_output_tokens(inputs, out) ==
    tf_concat(out, Slice(inputs, <<All, Sl(Some(1), None), All>>), 1)

\* the result `out` of attention and MLP for the class token: a tensor of new
\* elements, of the shape the graph gives it
ClassOut(batch, shape) == Build(<<batch>> \o shape, LAMBDA idx : SetToBag({<<"out", idx>>}))

\* the graph of a "class" block, and its output on batch examples of tokens;
\* the last layers of the graph are the Add that makes `out`, the slice
\* inputs[:, 1:] and the concatenation
class_block(graph, batch, tokens, embed_dim) ==
    [graph |-> graph,
     tokens |-> class_output_tokens(Symbolic(<<batch, tokens, embed_dim>>),
                                    ClassOut(batch, graph.layers[Len(graph.layers) - 2].out))]

\* Calls of attention_mlp_block as the classifier blocks of VOLO make them:
\* attention_type "class", inputs of embed_dim channels, no dropout
ClassBlockCalls ==
    [fn : {"attention_mlp_block"}, batch : 1..MaxBatch, tokens : 1..(MaxGrid + 1),
     embed_head : EmbedHeads, mlp_ratio : {1, 3}]

Call_attention_mlp_block ==
    /\ pc = "ready"
    /\ call.fn = "attention_mlp_block"
    /\ ret' = class_block(attention_mlp_block(Input(<<call.tokens, call.embed_head[1]>>),
                                              call.embed_head[1], call.embed_head[2],
                                              call.mlp_ratio, "class", <<0, 1>>, "gelu",
                                              <<0, 1>>, "classfiers0_"),
                          call.batch, call.tokens, call.embed_head[1])
    /\ pc' = "done"
    /\ UNCHANGED call

\* PRETRAINED_DICT: the resolutions with pretrained weights, per model name
PRETRAINED_DICT ==
    [name \in {"volo_d1", "volo_d2", "volo_d3", "volo_d4", "volo_d5"} |->
        CASE name \in {"volo_d1", "volo_d2"} -> {224, 384}
          [] name \in {"volo_d3", "volo_d4"} -> {224, 448}
          [] OTHER -> {224, 448, 512}]

\* maximum of a non-empty set of integers
SetMax(S) == CHOOSE m \in S : \A x \in S : x <= m

\* pretrained is None or Some("imagenet"); the result is what is handed over
\* to reload_model_weights_with_mismatch, or the KeyError of the dictionary
volo_reload_model_weights(model_name, input_shape, pretrained) ==
    IF model_name \notin DOMAIN PRETRAINED_DICT
    THEN [raised |-> TRUE, request_resolution |-> None, pretrained |-> None]
    ELSE LET pre_resolutions == PRETRAINED_DICT[model_name]
             request_resolution == IF input_shape[1] \in pre_resolutions THEN input_shape[1]
                                   ELSE SetMax(pre_resolutions)
         IN  [raised |-> FALSE, request_resolution |-> Some(request_resolution),
              pretrained |-> IF pretrained # None THEN Some(ToString(request_resolution))
                             ELSE None]

\* block_drop_rate of block ii of a loop of VOLO; the classifier blocks keep
\* the default drop_rate=0
VOLO_block_drop_rate(c, prefix, ii) ==
    IF prefix = "classfiers" THEN <<0, 1>>
    ELSE block_drop_rate(c.drop_connect_rate,
                         IF prefix = "MHSA_block" THEN c.num_blocks[1] + ii ELSE ii,
                         Sum(c.num_blocks))

\* the blocks ii.. of one loop of VOLO: "outlook_block", "MHSA_block" or
\* "classfiers"
RECURSIVE VOLO_blocks(_, _, _, _, _, _, _)
VOLO_blocks(nn, c, prefix, stage, attention_type, num_block, ii) ==
    IF ii >= num_block THEN nn
    ELSE VOLO_blocks(attention_mlp_block(nn, c.embed_dims[stage], c.num_heads[stage],
                                         c.mlp_ratios[stage], attention_type,
                                         VOLO_block_drop_rate(c, prefix, ii), "gelu", <<0, 1>>,
                                         prefix \o ToString(ii) \o "_"),
                     c, prefix, stage, attention_type, num_block, ii + 1)

\* bbox = mixup_token(nn)
mixup_token(nn) == Layer(nn, "MixupToken", "", <<4>>, [scale |-> 2])

\* mixup_token.do_mixup_token(nn, bbox), bbox built last
do_mixup_token(nn, bbox, cfg) == Layer(Then(bbox, nn), "do_mixup_token", "", nn.shape, cfg)

\* VOLO: forward_embeddings after the stem
forward_embeddings(c, nn) ==
    IF c.mix_token THEN do_mixup_token(nn, mixup_token(nn), "bbox * scale") ELSE nn

\* VOLO: forward_tokens
forward_tokens(c, nn) ==
    VOLO_blocks(SameShape(Conv2D(VOLO_blocks(nn, c, "outlook_block", 1, c.first_attn_type,
                                             c.num_blocks[1], 0),
                                 c.embed_dims[1] * 2, 2, 2, 1, "downsample_conv"),
                          "PositionalEmbedding", "positional_embedding", None),
                c, "MHSA_block", 2, "mhsa", c.num_blocks[2], 0)

\* ClassToken(name="class_token")(tokens)
ClassToken(tokens) ==
    Layer(tokens, "ClassToken", "class_token", <<tokens.shape[1] + 1, tokens.shape[2]>>, None)

\* VOLO: forward_cls, from the reshape to tokens up to pre_out_LN
forward_cls(c, nn) ==
    SameShape(VOLO_blocks(ClassToken(op_reshape(nn, <<-1, nn.shape[1] * nn.shape[2],
                                                     nn.shape[3]>>)),
                          c, "classfiers", Len(c.embed_dims), "class", c.classfiers, 0),
              "LayerNormalization", "pre_out_LN", None)

\* Dense(num_classes, name="token_head")(nn[:, 0])
token_head(c, nn) == Dense(op_index1(nn), c.num_classes, "token_head")

\* Dense(num_classes, name="aux_head")(nn[:, 1:]), built after nn_cls
aux_head(c, nn_cls, nn) ==
    Dense(op_slice1(Then(nn_cls, nn), Some(1), None), c.num_classes, "aux_head")

\* keras.models.Model(inputs, outputs, name) followed by volo_reload_model_weights
VOLO_model(c, nn, outputs) ==
    LET reload == volo_reload_model_weights(c.model_name, c.input_shape, c.pretrained)
    IN  [outputs |-> outputs, layers |-> nn.layers, err |-> nn.err \/ reload.raised,
         name |-> c.model_name, reload |-> reload]

\* a model of one output
VOLO_single(c, nn) == VOLO_model(c, nn, <<nn.shape>>)

\* VOLO, token_label_top with mix_token: nn_aux reshaped, mixed and reshaped again
mix_token_aux(c, nn_aux, height, width) ==
    Layer(Layer(op_reshape(nn_aux, <<-1, height, width, c.num_classes>>),
                "do_mixup_token", "", <<height, width, c.num_classes>>, "bbox"),
          "Reshape", "aux", <<height * width, c.num_classes>>, None)

\* VOLO, token_label_top with mix_token: nn_cls concatenated with lam_repeat
mix_token_class(c, nn_cls, aux, bbox) ==
    Layer(Then(Layer(Then(aux, bbox), "tf.repeat", "", <<1>>, None), nn_cls),
          "Concatenate", "class", <<c.num_classes + 1>>, -1)

\* VOLO, token_label_top: the outputs [nn_cls, nn_aux]
token_label(c, nn_cls, nn_aux, height, width, bbox) ==
    IF c.mix_token
    THEN VOLO_model(c, mix_token_class(c, nn_cls,
                                       mix_token_aux(c, nn_aux, height, width), bbox),
                    <<<<c.num_classes + 1>>, <<height * width, c.num_classes>>>>)
    ELSE VOLO_model(c, nn_aux, <<nn_cls.shape, nn_aux.shape>>)

\* VOLO, mean_classifier_top
mean_classifier(c, nn) ==
    VOLO_single(c, Dense(Layer(nn, "GlobalAveragePooling1D", "avg_pool", <<nn.shape[2]>>,
                               None),
                         c.num_classes, "token_head"))

\* VOLO without a top flag: nn_cls + tf.reduce_max(nn_aux, 1) * 0.5
evaluation(c, nn_cls, nn_aux) ==
    VOLO_single(c, AddShortcut(nn_cls,
                               SameShape(Layer(nn_aux, "tf.reduce_max", "",
                                               <<c.num_classes>>, 1),
                                         "tf.math.multiply", "", "0.5")))

\* VOLO: the two heads, of token_label_top and of no top flag
both_heads(c, nn_cls, nn_aux, height, width, bbox) ==
    IF c.token_label_top THEN token_label(c, nn_cls, nn_aux, height, width, bbox)
    ELSE evaluation(c, nn_cls, nn_aux)

\* VOLO: from nn_cls on, for the branches that build token_head on nn[:, 0]
after_token_head(c, nn_cls, nn, height, width, bbox) ==
    IF ~c.token_label_top /\ c.token_classifier_top THEN VOLO_single(c, nn_cls)
    ELSE both_heads(c, nn_cls, aux_head(c, nn_cls, nn), height, width, bbox)

\* VOLO: the top, on the output of pre_out_LN
VOLO_top(c, nn, height, width, bbox) ==
    IF ~c.token_label_top /\ c.mean_classifier_top THEN mean_classifier(c, nn)
    ELSE after_token_head(c, token_head(c, nn), nn, height, width, bbox)

\* VOLO after forward_tokens
VOLO_outputs(c, nn, bbox) ==
    IF c.num_classes = 0 THEN VOLO_single(c, nn)
    ELSE IF nn.err THEN VOLO_model(c, nn, <<>>)
    ELSE VOLO_top(c, forward_cls(c, nn), nn.shape[1], nn.shape[2], bbox)

\* VOLO after the stem
VOLO_body(c, stem) ==
    VOLO_outputs(c, forward_tokens(c, forward_embeddings(c, stem)), mixup_token(stem))

\* c holds the arguments
VOLO(c) ==
    VOLO_body(c, patch_stem(Input(c.input_shape), c.stem_hidden_dim, c.embed_dims[1],
                            c.patch_size, 2, "relu", "stem_"))

(***************************************************************************)
(* Calls of the model assemblers and of res_MBConv, one call per behaviour *)
(***************************************************************************)
\* input sizes of CoAtNet: odd and even, and odd and even after the stem;
\* square and not
ModelSides == {MaxSide - 1, MaxSide, MaxSide + 2}

\* stack widths, scaled down from 64 ... 2048; a width of 1 is the case
\* groups == filters of conv2d_no_bias, called on its own above
Widths == {2, 4}

\* se_ratio: 0 and 1/4
SeRatios == {<<0, 1>>, <<1, 4>>}

\* drop_connect_rate and drop_rate: 0 and 1/5
Rates == {<<0, 1>>, <<1, 5>>}

\* the widths of n stacks: one width for all, or growing from stack to stack
StackWidths(n) == {[i \in 1..n |-> w] : w \in Widths} \cup {[i \in 1..n |-> 2 * i]}

\* the block types of n stacks: convolution stacks first, then transformer
\* stacks, as in the default ["conv", "conv", "transfrom", "transform"]
StackTypes(n) ==
    {[i \in 1..n |-> IF i <= k THEN "conv" ELSE IF i = n THEN "transform" ELSE "transfrom"] :
        k \in 0..n}

CoAtNetCalls ==
    UNION {[fn : {"CoAtNet"}, num_blocks : [1..n -> 0..MaxBlocks], out_channels : StackWidths(n),
            stem_width : {2}, block_types : StackTypes(n), expansion : {4},
            se_ratio : SeRatios, head_dimension : {2},
            input_shape : {<<p[1], p[2], 3>> :
                              p \in {q \in ModelSides \X ModelSides :
                                        q[2] \in {q[1], MaxSide + 2}}},
            num_classes : {0, 10}, activation : {"gelu"}, drop_connect_rate : Rates,
            drop_rate : Rates] : n \in 1..MaxStages}

MBConvCalls ==
    [fn : {"res_MBConv"}, height : 1..MaxSide, width : 1..MaxSide, channel : Widths,
     output_channel : Widths, conv_short_cut : BOOLEAN, strides : 1..2, expansion : {1, 4},
     se_ratio : SeRatios, drop_rate : Rates]

\* VOLO on square inputs; the widths and heads are those of the presets scaled
\* down (embed_dims[1] = 2 * embed_dims[0]); model_name is a preset's name or
\* the default; VOLOCalls are those with at most one of the three top flags
VOLOArgs ==
    [fn : {"VOLO"}, num_blocks : (0..MaxBlocks) \X (0..MaxBlocks), embed_dims : {<<2, 4>>},
     num_heads : {<<1, 2>>}, mlp_ratios : {<<3, 3>>}, stem_hidden_dim : {2},
     patch_size : {2, 4}, input_shape : {<<h, h, 3>> : h \in {2 * MaxSide - 4, 2 * MaxSide}},
     num_classes : {0, 10}, drop_connect_rate : Rates, classfiers : {2},
     mix_token : BOOLEAN, token_classifier_top : BOOLEAN, mean_classifier_top : BOOLEAN,
     token_label_top : BOOLEAN, first_attn_type : {"outlook", "outlook_simple"},
     pretrained : {None, Some("imagenet")}, model_name : {"volo_d1", "VOLO"}]

VOLOCalls ==
    {c \in VOLOArgs : Cardinality({top \in {"token_label", "mean_classifier", "token_classifier"} :
                                    \/ top = "token_label" /\ c.token_label_top
                                    \/ top = "mean_classifier" /\ c.mean_classifier_top
                                    \/ top = "token_classifier" /\ c.token_classifier_top})
                         <= 1}

Call_CoAtNet ==
    /\ pc = "ready"
    /\ call.fn = "CoAtNet"
    /\ ret' = CoAtNet(call)
    /\ pc' = "done"
    /\ UNCHANGED call

Call_VOLO ==
    /\ pc = "ready"
    /\ call.fn = "VOLO"
    /\ ret' = VOLO(call)
    /\ pc' = "done"
    /\ UNCHANGED call

Call_res_MBConv ==
    /\ pc = "ready"
    /\ call.fn = "res_MBConv"
    /\ ret' = res_MBConv(Input(<<call.height, call.width, call.channel>>), call.output_channel,
                         call.conv_short_cut, call.strides, call.expansion, call.se_ratio,
                         call.drop_rate, "gelu", "m_")
    /\ pc' = "done"
    /\ UNCHANGED call

\* Calls of volo_reload_model_weights: the model names of the presets and the
\* default name of VOLO; input sizes with and without pretrained weights
ReloadCalls ==
    [fn : {"volo_reload_model_weights"},
     model_name : (DOMAIN PRETRAINED_DICT) \cup {"VOLO"},
     input_shape : {<<h, h, 3>> : h \in {160, 224, 384, 448, 512}},
     pretrained : {None, Some("imagenet")}]

Call_volo_reload_model_weights ==
    /\ pc = "ready"
    /\ call.fn = "volo_reload_model_weights"
    /\ ret' = volo_reload_model_weights(call.model_name, call.input_shape, call.pretrained)
    /\ pc' = "done"
    /\ UNCHANGED call

InitModels ==
    /\ call \in (CoAtNetCalls \cup VOLOCalls \cup MBConvCalls \cup ClassBlockCalls
                    \cup ReloadCalls)
    /\ ret = None
    /\ pc = "ready"

NextModels ==
    \/ Call_CoAtNet
    \/ Call_VOLO
    \/ Call_res_MBConv
    \/ Call_attention_mlp_block
    \/ Call_volo_reload_model_weights

SpecModels == InitModels /\ [][NextModels]_vars

(***************************************************************************)
(* Properties                                                              *)
(***************************************************************************)
\* the col2im sum at output pixel (y, x): every patch entry (i, j, a, b) that
\* covers the pixel, once
Col2Im(c, n, y, x, ch) ==
    SetToBag({<<n, i, j, a, b, ch>> :
                <<i, j, a, b>> \in {q \in (0..(CeilDiv(c.height, 2) - 1))
                                        \X (0..(CeilDiv(c.width, 2) - 1))
                                        \X (0..2) \X (0..2) :
                                      2 * q[1] + q[3] - 1 = y /\ 2 * q[2] + q[4] - 1 = x}})

\* C1: fold_overlap_1 with kernel_size=3, strides=2, padding=1 returns a tensor
\* of spatial size height x width whose value at pixel (y, x) is the sum, each
\* counted once, of the patch entries (i, j, a, b) with 2i+a-1 = y, 2j+b-1 = x.
C1_FoldIsCol2Im ==
    (pc = "done" /\ call.fn = "fold_overlap_1") =>
        /\ ~ret.err
        /\ ret.shape = <<call.batch, call.height, call.width, call.channel>>
        /\ \A k \in 1..Len(ret.data) :
              LET idx == Unflat(k - 1, ret.shape)
              IN  ret.data[k] = Col2Im(call, idx[1], idx[2], idx[3], idx[4])

\* an odd, non-square map has been folded, and some pixel got two overlapping
\* patch entries
C1_Witness ==
    /\ pc = "done" /\ call.fn = "fold_overlap_1"
    /\ call.height = 5 /\ call.width = 4
    /\ ~ret.err
    /\ \E k \in 1..Len(ret.data) : BagCardinality(ret.data[k]) >= 2

\* what tf.image.extract_patches(sizes 3, strides 2, "VALID") returns for a
\* batch x height x width x channel input: entry (a, b, c) of patch (i, j) is
\* input[2i+a, 2j+b, c], flattened in (row, column, channel) order
NativePatches(c) ==
    Build(<<c.batch, (c.height - 3) \div 2 + 1, (c.width - 3) \div 2 + 1, 9 * c.channel>>,
          LAMBDA idx :
            LET a == idx[4] \div (3 * c.channel)
                b == (idx[4] \div c.channel) % 3
                ch == idx[4] % c.channel
            IN  SetToBag({<<idx[1], 2 * idx[2] + a, 2 * idx[3] + b, ch>>}))

\* C2: for sizes=3, strides=2, padding="VALID" and every height, width >= 3,
\* tpu_extract_patches_overlap_1 returns exactly what native patch extraction
\* returns: floor((H-3)/2)+1 by floor((W-3)/2)+1 patches in the same order.
C2_TpuPatchesAreNative ==
    (pc = "done" /\ call.fn = "tpu_extract_patches_overlap_1") =>
        ret = NativePatches(call)

\* the same statement for square inputs only
C2_TpuPatchesSquare ==
    (pc = "done" /\ call.fn = "tpu_extract_patches_overlap_1" /\ call.height = call.width) =>
        ret = NativePatches(call)

Returned(fn) == pc = "done" /\ call.fn = fn

MinValueOf(c) == IF c.min_value = None THEN c.divisor ELSE c.min_value[1]

\* C7 as stated: make_divisible returns a multiple of divisor that is at least
\* min_value (divisor when min_value is None) and at least 0.9 * vv, for every
\* vv >= 0, divisor >= 1 and min_value.
C7_MakeDivisibleAsStated ==
    Returned("make_divisible") =>
        /\ ret % call.divisor = 0
        /\ ret >= MinValueOf(call)
        /\ 10 * ret * call.vv[2] >= 9 * call.vv[1]

\* C7 amended: the result is at least min_value (divisor when min_value is
\* None) and at least 0.9 * vv; it is a multiple of divisor whenever min_value
\* is None or itself a multiple of divisor.
C7_MakeDivisible ==
    Returned("make_divisible") =>
        /\ MinValueOf(call) % call.divisor = 0 => ret % call.divisor = 0
        /\ ret >= MinValueOf(call)
        /\ 10 * ret * call.vv[2] >= 9 * call.vv[1]

\* make_divisible(5, 4) rounds down to 4, more than 10% below 5, and returns 8
C7_Witness ==
    /\ Returned("make_divisible")
    /\ call.vv = <<5 * VvDen, VvDen>> /\ call.divisor = 4 /\ call.min_value = None
    /\ ret = 8

IsConvCall == pc = "done" /\ call.fn \in {"conv2d_no_bias", "depthwise_conv2d_no_bias"}

\* the layers of a "same" call: ZeroPadding2D(kernel_size // 2) when that is
\* not zero, then the convolution with VALID padding
PadThenValidConv ==
    LET pad == call.kernel_size \div 2
        n == Len(ret.layers)
    IN  /\ ~ret.err
        /\ n = (IF pad = 0 THEN 1 ELSE 2)
        /\ ret.layers[n].kind \in {"Conv2D", "DepthwiseConv2D"}
        /\ ret.layers[n].cfg.padding = "VALID"
        /\ pad # 0 => /\ ret.layers[1].kind = "ZeroPadding2D"
                      /\ ret.layers[1].cfg = <<(<<pad, pad>>), (<<pad, pad>>)>>

NoZeroPadding == \A i \in 1..Len(ret.layers) : ret.layers[i].kind # "ZeroPadding2D"

CeilSize ==
    /\ ret.shape[1] = CeilDiv(call.height, call.strides)
    /\ ret.shape[2] = CeilDiv(call.width, call.strides)

\* C8 as stated: with padding "same" conv2d_no_bias and depthwise_conv2d_no_bias
\* zero-pad kernel_size // 2 on every side, convolve with VALID padding and
\* return ceil(H / strides) x ceil(W / strides), for every kernel size; with
\* any other padding no ZeroPadding2D layer is added.
C8_SamePaddingAsStated ==
    IsConvCall =>
        IF Upper(call.padding) = "SAME"
        THEN PadThenValidConv /\ CeilSize
        ELSE NoZeroPadding

\* C8 amended: the same, with the output size ceil(H / strides) x
\* ceil(W / strides) for every odd kernel size.
C8_SamePadding ==
    IsConvCall =>
        IF Upper(call.padding) = "SAME"
        THEN PadThenValidConv /\ (call.kernel_size % 2 = 1 => CeilSize)
        ELSE NoZeroPadding

\* a 3x3 stride-2 "same" convolution of a 5 x 6 map returned 3 x 3
C8_Witness ==
    /\ Returned("conv2d_no_bias")
    /\ call.padding = "same" /\ call.kernel_size = 3 /\ call.strides = 2
    /\ call.height = 5 /\ call.width = 6
    /\ ~ret.err /\ ret.shape[1] = 3 /\ ret.shape[2] = 3
    /\ Len(ret.layers) = 2

\* C9: for drop_rate > 0 and an input of rank n >= 2 drop_block adds one
\* Dropout layer with noise shape [None, 1, ..., 1] (n - 1 ones), which keeps
\* or zeroes each example as a whole; for drop_rate <= 0 it returns its input
\* and adds no layer.
C9_DropBlock ==
    Returned("drop_block") =>
        IF RatGt0(call.drop_rate)
        THEN /\ ~ret.err
             /\ ret.shape = call.shape
             /\ Len(ret.layers) = 1
             /\ ret.layers[1].kind = "Dropout"
             /\ ret.layers[1].cfg.rate = call.drop_rate
             /\ LET ns == ret.layers[1].cfg.noise_shape
                IN  /\ Len(ns) = Len(call.shape) + 1
                    /\ ns[1] = None
                    /\ \A i \in 2..Len(ns) : ns[i] = Some(1)
        ELSE ret = Input(call.shape)

\* a rank-3 input was given a Dropout layer
C9_Witness ==
    /\ Returned("drop_block")
    /\ Len(call.shape) = 2 /\ RatGt0(call.drop_rate)
    /\ Len(ret.layers) = 1

\* the input of the value projection "v": the padded input
PaddedInput == (CHOOSE l \in {ret.layers[i] : i \in 1..Len(ret.layers)} : l.name = "a_v").inp

ReshapesExact ==
    \A i \in 1..Len(ret.layers) : ret.layers[i].kind = "tf.reshape" => ret.layers[i].cfg.exact

\* C3: for every height and width outlook_attention_simple pads its input so
\* that both spatial sides are exact multiples of kernel_size, its reshapes
\* into and out of (hh, kernel_size, ww, kernel_size) windows are exact, and
\* its output is height x width x embed_dim.
C3_OutlookSimpleShape ==
    Returned("outlook_attention_simple") =>
        /\ ~ret.err
        /\ PaddedInput[1] % call.kernel_size = 0
        /\ PaddedInput[2] % call.kernel_size = 0
        /\ ReshapesExact
        /\ ret.shape = <<call.height, call.width, call.embed_head[1]>>

\* the same statement for inputs whose height and width leave the same
\* remainder modulo kernel_size
C3_OutlookSimpleCongruent ==
    (Returned("outlook_attention_simple")
        /\ call.height % call.kernel_size = call.width % call.kernel_size) =>
        /\ ~ret.err
        /\ PaddedInput[1] % call.kernel_size = 0
        /\ PaddedInput[2] % call.kernel_size = 0
        /\ ReshapesExact
        /\ ret.shape = <<call.height, call.width, call.embed_head[1]>>

\* the layers of the returned graph
Layers == {ret.layers[i] : i \in 1..Len(ret.layers)}

Has(name) == \E i \in 1..Len(ret.layers) : ret.layers[i].name = name

Pos(name) == CHOOSE i \in 1..Len(ret.layers) : ret.layers[i].name = name

\* the drop probability a block was built with: the rate of its Dropout layer,
\* 0 when it has none
DropRateOf(name) == IF Has(name) THEN ret.layers[Pos(name)].cfg.rate ELSE <<0, 1>>

\* the names of the stochastic-depth layers of the blocks, in build order
RECURSIVE CoAtNetDropNames(_, _, _)
CoAtNetDropNames(num_blocks, stack_id, block_id) ==
    IF stack_id >= Len(num_blocks) THEN <<>>
    ELSE IF block_id >= num_blocks[stack_id + 1]
    THEN CoAtNetDropNames(num_blocks, stack_id + 1, 0)
    ELSE <<block_name(stack_id, block_id) \o "drop">>
         \o CoAtNetDropNames(num_blocks, stack_id, block_id + 1)

VOLODropNames(num_blocks) ==
    [i \in 1..num_blocks[1] |-> "outlook_block" \o ToString(i - 1) \o "_drop_1"]
    \o [i \in 1..num_blocks[2] |-> "MHSA_block" \o ToString(i - 1) \o "_drop_1"]

DropNames == IF call.fn = "CoAtNet" THEN CoAtNetDropNames(call.num_blocks, 0, 0)
             ELSE VOLODropNames(call.num_blocks)

BuiltModel == pc = "done" /\ call.fn \in {"CoAtNet", "VOLO"} /\ ~ret.err

\* C4: with drop_connect_rate r > 0 the drop probability of the blocks, in
\* build order, grows linearly from 0 for the first block to r for the last
\* block (models of at least two blocks).
C4_DropConnectLinear ==
    (BuiltModel /\ RatGt0(call.drop_connect_rate) /\ Len(DropNames) >= 2) =>
        LET n == Len(DropNames)
            r == call.drop_connect_rate
        IN  /\ \A i \in 1..n :
                  LET rate == DropRateOf(DropNames[i])
                  IN  RatEq(<<rate[1] * (n - 1), rate[2]>>, <<r[1] * (i - 1), r[2]>>)
            /\ RatEq(DropRateOf(DropNames[n]), r)

\* the schedule of the code: block i of n (from 0) is built with r * i / n
DropConnectSchedule ==
    (BuiltModel /\ RatGt0(call.drop_connect_rate)) =>
        LET n == Len(DropNames)
            r == call.drop_connect_rate
        IN  \A i \in 1..n :
                LET rate == DropRateOf(DropNames[i])
                IN  RatEq(<<rate[1] * n, rate[2]>>, <<r[1] * (i - 1), r[2]>>)

AddLayers == {i \in 1..Len(ret.layers) : ret.layers[i].kind = "Add"}

\* the residual additions CoAtNet is to build: one per convolution block, two
\* (attention and feed-forward) per transformer block
ResidualAdds(c) ==
    Sum([i \in 1..Len(c.num_blocks) |->
            IF is_conv_block(c.block_types[i]) THEN c.num_blocks[i] ELSE 2 * c.num_blocks[i]])

ExpandConv == ret.layers[Pos("m_expand_conv")]

DepthwiseConv == ret.layers[Pos("m_MB_dw_conv")]

ProjectConv == ret.layers[Pos("m_MB_pw_conv")]

SeNames == {"m_se_1_conv", "m_se_2_conv", "m_se_out"}

HeadLayers == {l \in Layers : \/ l.kind \in {"GlobalAveragePooling2D", "GlobalAveragePooling1D",
                                             "ClassToken", "tf.concat", "Concatenate"}
                              \/ l.name \in {"predictions", "token_head", "aux_head",
                                             "pre_out_LN", "class_token"}}

\* the Dropout of the CoAtNet head: the one Dropout layer without a name
HeadDropout == {l \in Layers : l.kind = "Dropout" /\ l.name = ""}

LastLayer == ret.layers[Len(ret.layers)]

\* what the claim says of a call of CoAtNet
CoAtNetTop ==
    /\ ~ret.err
    /\ call.num_classes = 0 =>
           /\ HeadLayers = {} /\ HeadDropout = {}
           /\ Len(ret.shape) = 3
           /\ LastLayer.kind \in {"Add", "Conv2D"}
    /\ call.num_classes > 0 =>
           /\ Has("avg_pool") /\ Has("predictions")
           /\ ret.shape = <<call.num_classes>>
           /\ (HeadDropout # {}) <=> RatGt0(call.drop_rate)

\* what the claim says of a call of VOLO with num_classes = 0
VOLONoTop ==
    /\ ~ret.err
    /\ HeadLayers = {}
    /\ LastLayer.kind \in {"Add", "PositionalEmbedding"}
    /\ ret.outputs = <<LastLayer.out>>
    /\ Len(LastLayer.out) = 3

\* C6: with num_classes = 0 CoAtNet returns the feature map of its last stage,
\* without pooling, dropout or Dense layer, and VOLO returns the feature map
\* of its MHSA stage, without class token, classifier blocks or heads; with
\* num_classes > 0 CoAtNet adds the dropout of its head only if drop_rate > 0.
C6_NoTop ==
    /\ Returned("CoAtNet") => CoAtNetTop
    /\ (Returned("VOLO") /\ call.num_classes = 0) => VOLONoTop

\* the same, for the calls of VOLO whose model_name has pretrained weights
NoTopWhenNamed ==
    /\ Returned("CoAtNet") => CoAtNetTop
    /\ (Returned("VOLO") /\ call.num_classes = 0 /\ call.model_name \in DOMAIN PRETRAINED_DICT)
           => VOLONoTop


\* C11: se_module reduces its input to the spatial mean (1 x 1 x filters),
\* every layer of the gate works on the output of the layer before it and
\* keeps the spatial size 1 x 1, the hidden width is
\* make_divisible(filters * se_ratio, divisor) >= divisor, the gate has as many
\* channels as the input, and the product of input and gate has the shape of
\* the input.
C11_SeModule ==
    Returned("se_module") =>
        LET n == Len(ret.layers)
            in_shape == <<call.height, call.width, call.channel>>
            gate == <<1, 1, call.channel>>
        IN  /\ ~ret.err
            /\ ret.shape = in_shape
            /\ n >= 4
            /\ ret.layers[1].kind = "tf.reduce_mean"
            /\ ret.layers[1].inp = in_shape
            /\ ret.layers[1].out = gate
            /\ \A i \in 2..(n - 1) : /\ ret.layers[i].inp = ret.layers[i - 1].out
                                     /\ ret.layers[i].out[1] = 1
                                     /\ ret.layers[i].out[2] = 1
            /\ ret.layers[2].kind = "Conv2D"
            /\ ret.layers[2].out[3] = make_divisible(<<call.channel * call.se_ratio[1],
                                                       call.se_ratio[2]>>, call.divisor, None)
            /\ ret.layers[2].out[3] >= call.divisor
            /\ ret.layers[n - 1].out = gate
            /\ ret.layers[n].kind = "Multiply"
            /\ ret.layers[n].cfg = <<in_shape, gate>>
            /\ ret.layers[n].out = in_shape

\* a 3 x 5 map of 16 channels was gated through a hidden width of 8
C11_Witness ==
    /\ Returned("se_module")
    /\ call.height = 3 /\ call.width = 5 /\ call.channel = 8 * MaxChan
    /\ call.se_ratio = <<1, 2>> /\ call.divisor = 4
    /\ ~ret.err
    /\ Len(ret.layers) = 6
    /\ ret.layers[2].out = <<1, 1, 4 * MaxChan>>

\* the grid on which outlook_attention lays out the attention weights
CeilGrid == <<CeilDiv(call.height, 2), CeilDiv(call.width, 2)>>

\* the output of the average pooling of outlook_attention
Pooled == (CHOOSE l \in Layers : l.kind = "AveragePooling2D").out

\* C12: in outlook_attention with kernel_size 3, strides 2 and padding 1 the
\* grid hh x ww = ceil(height / strides) x ceil(width / strides) is the grid
\* of the average-pooled attention input, so that the reshape of the attention
\* weights to (hh, ww) is exact, and it is the grid of the patches that
\* UnfoldMatmulFold extracts, for every height and width.
C12_OutlookGrids ==
    /\ (Returned("outlook_attention") /\ call.padding = 1) =>
            /\ ~ret.err
            /\ SubSeq(Pooled, 1, 2) = CeilGrid
            /\ ReshapesExact
    /\ (Returned("UnfoldMatmulFold") /\ call.padding = 1) =>
            /\ ~ret.err
            /\ SubSeq(ret.patches, 1, 2) = CeilGrid
            /\ ret.exact

\* the same statement for even heights and widths, and for the patches of
\* UnfoldMatmulFold alone at every height and width
C12_OutlookGridsEven ==
    /\ (Returned("outlook_attention") /\ call.padding = 1
            /\ call.height % 2 = 0 /\ call.width % 2 = 0) =>
            /\ ~ret.err
            /\ SubSeq(Pooled, 1, 2) = CeilGrid
            /\ ReshapesExact
    /\ (Returned("UnfoldMatmulFold") /\ call.padding = 1) =>
            /\ ~ret.err
            /\ SubSeq(ret.patches, 1, 2) = CeilGrid
            /\ ret.exact

BlockAdd(name) ==
    ret.layers[CHOOSE i \in AddLayers :
                  /\ i > Pos(name \o "preact_bn")
                  /\ \A j \in AddLayers : j > Pos(name \o "preact_bn") => i <= j]

\* the block called name is strided by 2 and projects its shortcut
StridedBlock(name, conv) ==
    /\ Has(name \o "shortcut_pool") /\ Has(name \o "shortcut_conv")
    /\ ret.layers[Pos(name \o "shortcut_pool")].cfg.strides = 2
    /\ ret.layers[Pos(name \o "shortcut_conv")].kind \in {"Conv2D", "DepthwiseConv2D"}
    /\ IF conv THEN ret.layers[Pos(name \o "MB_dw_conv")].cfg.strides = 2
       ELSE Has(name \o "pool") /\ ret.layers[Pos(name \o "pool")].cfg.strides = 2

\* the block called name has strides 1 and adds its input as the shortcut
IdentityBlock(name, conv) ==
    /\ ~Has(name \o "shortcut_pool") /\ ~Has(name \o "shortcut_conv")
    /\ IF conv THEN ret.layers[Pos(name \o "MB_dw_conv")].cfg.strides = 1
       ELSE ~Has(name \o "pool")
    /\ BlockAdd(name).cfg[1] = ret.layers[Pos(name \o "preact_bn")].inp
    /\ BlockAdd(name).out = ret.layers[Pos(name \o "preact_bn")].inp

\* the feature map of the last stage
FeatureMap == IF call.num_classes > 0 THEN ret.layers[Pos("avg_pool")].inp ELSE ret.shape

C15_FiltersChannels ==
    (Returned("conv2d_no_bias") /\ ~ret.err) => ret.shape[3] = call.filters

\* the same for the calls that do not take the depthwise branch
C15_FiltersChannelsConv2D ==
    (Returned("conv2d_no_bias") /\ ~ret.err /\ Max2(1, call.groups) # call.filters) =>
        ret.shape[3] = call.filters

\* the call was made with a falsy activation: None or the empty string
FalsyActivation == call.activation \in {"", NoneStr}

\* batchnorm_with_activation added its BatchNormalization layer and nothing else
OnlyBatchNorm ==
    /\ ~ret.err
    /\ ret.shape = <<call.height, call.width, call.channel>>
    /\ Len(ret.layers) = 1
    /\ ret.layers[1].kind = "BatchNormalization"

\* C16: activation_by_name called with a falsy activation (None or "") returns
\* its input unchanged, adds no layer and raises no error, both when called
\* directly and through batchnorm_with_activation.
C16_FalsyActivation ==
    /\ (Returned("activation_by_name") /\ FalsyActivation) =>
            ret = Input(<<call.height, call.width, call.channel>>)
    /\ (Returned("batchnorm_with_activation") /\ FalsyActivation) => OnlyBatchNorm

\* the same for the empty string called directly, and for both falsy values
\* through batchnorm_with_activation
C16_EmptyActivation ==
    /\ (Returned("activation_by_name") /\ call.activation = "") =>
            ret = Input(<<call.height, call.width, call.channel>>)
    /\ (Returned("batchnorm_with_activation") /\ FalsyActivation) => OnlyBatchNorm

\* the box that Call_do_mixup_token applied
AppliedBox == MixupToken_call(call.training, call.bbox)

\* the input of Call_do_mixup_token
MixupInput == Symbolic(<<call.batch, call.height, call.width, 1>>)

\* the index (example, row, column, channel) lies in the applied box
InBox(idx) ==
    /\ AppliedBox[2] <= idx[2] /\ idx[2] < AppliedBox[4]
    /\ AppliedBox[1] <= idx[3] /\ idx[3] < AppliedBox[3]

\* C17: do_mixup_token keeps the shape of its input, leaves every token
\* outside rows [top, bottom) x columns [left, right) unchanged and gives
\* example i, inside the box, the token of example B - 1 - i; it is the
\* identity for the box (0, 0, 0, 0) of the test phase, and applying it twice
\* with one box restores the input.
C17_DoMixupToken ==
    Returned("do_mixup_token") =>
        /\ ~ret.output.err
        /\ ret.output.shape = MixupInput.shape
        /\ \A k \in 1..Prod(MixupInput.shape) :
              LET idx == Unflat(k - 1, MixupInput.shape)
              IN  At(ret.output, idx) =
                      IF InBox(idx)
                      THEN At(MixupInput, [idx EXCEPT ![1] = call.batch - 1 - idx[1]])
                      ELSE At(MixupInput, idx)
        /\ ~call.training => ret.output = MixupInput
        /\ ret.twice = MixupInput

\* three examples of 3 x 3 tokens, mixed in rows 1..2 of column 1: the first
\* example holds the last example's tokens there
C17_Witness ==
    /\ Returned("do_mixup_token")
    /\ call.training
    /\ call.batch = 3 /\ call.height = 3 /\ call.width = 3
    /\ call.bbox = <<1, 1, 2, 3>>
    /\ At(ret.output, <<0, 2, 1, 0>>) = At(MixupInput, <<2, 2, 1, 0>>)
    /\ At(ret.output, <<0, 0, 1, 0>>) = At(MixupInput, <<0, 0, 1, 0>>)
    /\ ret.output # MixupInput
    /\ ret.twice = MixupInput

\* C18: for every height and width >= scale and every random draw the box of
\* rand_bbox satisfies 0 <= left <= right < width // scale and
\* 0 <= top <= bottom < height // scale, and the lam that VOLO computes,
\* 1 - area / (height * width) on the token grid, lies in [0, 1].
C18_RandBbox ==
    Returned("rand_bbox") =>
        /\ 0 <= ret.bbox[1] /\ ret.bbox[1] <= ret.bbox[3]
        /\ ret.bbox[3] < call.width \div call.scale
        /\ 0 <= ret.bbox[2] /\ ret.bbox[2] <= ret.bbox[4]
        /\ ret.bbox[4] < call.height \div call.scale
        /\ ret.lam[2] > 0
        /\ RatLe(<<0, 1>>, ret.lam) /\ RatLe(ret.lam, <<1, 1>>)

\* on a 6 x 6 map with random_lam = 0 the cut is 3 // 2 = 1 token wide: the
\* draws right_pos = 1 and bottom_pos = 0 gave the box (0, 0, 1, 0), its top
\* clamped to 0, and lam = 1
C18_Witness ==
    /\ Returned("rand_bbox")
    /\ call.height = 6 /\ call.width = 6 /\ call.random_lam = <<0, 8>>
    /\ ret.bbox = <<0, 0, 1, 0>>
    /\ ret.lam = <<9, 9>>

\* the tokens given to the "class" block
ClassInput == Symbolic(<<call.batch, call.tokens, call.embed_head[1]>>)

\* the layers of the graph of the "class" block
ClassLayers == ret.graph.layers

\* C19: attention_mlp_block with attention_type "class" changes only the class
\* token: for an input of N tokens the output has N tokens, tokens 1..N-1 of
\* the output are the tokens 1..N-1 of the input, and token 0 is the result of
\* attention and MLP, which are computed for one token.
C19_ClassTokenOnly ==
    Returned("attention_mlp_block") =>
        LET n == Len(ClassLayers)
            one == <<1, call.embed_head[1]>>
        IN  /\ ~ret.graph.err
            /\ ret.graph.shape = <<call.tokens, call.embed_head[1]>>
            /\ ClassLayers[1].kind = "tf.slice" /\ ClassLayers[1].out = one
            /\ \A i \in 1..n : ClassLayers[i].kind \in {"Add", "MultiHeadAttention"} =>
                                   ClassLayers[i].out = one
            /\ ClassLayers[n - 2].kind = "Add"
            /\ ClassLayers[n - 1].kind = "tf.slice"
            /\ ClassLayers[n - 1].inp = <<call.tokens, call.embed_head[1]>>
            /\ ClassLayers[n - 1].cfg = <<Some(1), None>>
            /\ ClassLayers[n].kind = "tf.concat"
            /\ ~ret.tokens.err
            /\ ret.tokens.shape = ClassInput.shape
            /\ \A k \in 1..Prod(ClassInput.shape) :
                  LET idx == Unflat(k - 1, ClassInput.shape)
                  IN  At(ret.tokens, idx) = IF idx[2] = 0 THEN SetToBag({<<"out", idx>>})
                                            ELSE At(ClassInput, idx)

\* two examples of four tokens: the last token is the input's, the first is new
C19_Witness ==
    /\ Returned("attention_mlp_block")
    /\ call.batch = 2 /\ call.tokens = 4 /\ call.embed_head = <<4, 2>>
    /\ ~ret.graph.err
    /\ ret.graph.shape = <<4, 4>>
    /\ At(ret.tokens, <<1, 3, 2>>) = At(ClassInput, <<1, 3, 2>>)
    /\ At(ret.tokens, <<1, 0, 2>>) # At(ClassInput, <<1, 0, 2>>)

\* the resolutions with pretrained weights for the model of the call, none
\* for a name that PRETRAINED_DICT does not hold
PreResolutions ==
    IF call.model_name \in DOMAIN PRETRAINED_DICT THEN PRETRAINED_DICT[call.model_name] ELSE {}

\* what volo_reload_model_weights is to hand over
ReloadSelection ==
    /\ ~ret.raised
    /\ call.input_shape[1] \in PreResolutions =>
           ret.request_resolution = Some(call.input_shape[1])
    /\ (call.input_shape[1] \notin PreResolutions /\ PreResolutions # {}) =>
           /\ ret.request_resolution # None
           /\ ret.request_resolution[1] \in PreResolutions
           /\ \A r \in PreResolutions : r <= ret.request_resolution[1]
    /\ call.pretrained = None => ret.pretrained = None

\* C20: volo_reload_model_weights selects input_shape[0] as the resolution
\* when the model has pretrained weights of that resolution and the largest
\* pretrained resolution otherwise; with pretrained None it requests no
\* weights, for every model built by VOLO, the default model_name included.
C20_ReloadSelection ==
    Returned("volo_reload_model_weights") => ReloadSelection

\* the same for the model names of the presets
C20_ReloadSelectionPresets ==
    (Returned("volo_reload_model_weights") /\ call.model_name \in DOMAIN PRETRAINED_DICT) =>
        ReloadSelection

\* the binomial coefficient C(n, k), by Pascal's rule
RECURSIVE Binomial(_, _)
Binomial(n, k) ==
    IF k < 0 \/ k > n THEN 0
    ELSE IF n = 0 THEN 1
    ELSE Binomial(n - 1, k - 1) + Binomial(n - 1, k)

\* C21: the kernel of anti_alias_downsample for kernel_size k has the shape
\* (k, k, channel, 1); its weight (i, j) is C(k-1, i) * C(k-1, j) / 4^(k-1),
\* the same for every channel, and the k x k weights of each channel sum to
\* exactly 1.
C21_AntiAliasKernel ==
    Returned("anti_alias_downsample") =>
        LET k == call.kernel_size
            w == ret.weights
        IN  /\ ~w.err
            /\ w.shape = <<k, k, call.channel, 1>>
            /\ \A i \in 0..(k - 1) : \A j \in 0..(k - 1) : \A c \in 0..(call.channel - 1) :
                  /\ At(w, <<i, j, c, 0>>)[2] > 0
                  /\ RatEq(At(w, <<i, j, c, 0>>),
                           <<Binomial(k - 1, i) * Binomial(k - 1, j), 4 ^ (k - 1)>>)
                  /\ At(w, <<i, j, c, 0>>) = At(w, <<i, j, 0, 0>>)
            /\ \A c \in 0..(call.channel - 1) :
                  Sum([n \in 1..(k * k) |->
                          At(w, <<(n - 1) \div k, (n - 1) % k, c, 0>>)[1]])
                      = At(w, <<0, 0, c, 0>>)[2]
            /\ \A n \in 1..Len(w.data) : w.data[n][2] = w.data[1][2]

\* kernel_size 3 on two channels: the weights are [1, 2, 1] x [1, 2, 1] / 16
C21_Witness ==
    /\ Returned("anti_alias_downsample")
    /\ call.kernel_size = 3 /\ call.channel = 2
    /\ ret.weights.shape = <<3, 3, 2, 1>>
    /\ [n \in 1..9 |-> At(ret.weights, <<(n - 1) \div 3, (n - 1) % 3, 1, 0>>)]
         = <<(<<1, 16>>), (<<2, 16>>), (<<1, 16>>), (<<2, 16>>), (<<4, 16>>), (<<2, 16>>),
             (<<1, 16>>), (<<2, 16>>), (<<1, 16>>)>>

====
